---- MODULE Spec2Model ----
(***************************************************************************)
(* Model of the tracker store of src/src/App.tsx: the document of four     *)
(* linked collections, seed(), normalizeStore() and the store mutations    *)
(* of SummerResearchTrackerApp.                                            *)
(*                                                                         *)
(* JavaScript values.  A value that the code tests with Array.isArray is   *)
(* a record [isArray, items]: Arr(s) is the array s, NotArray stands for   *)
(* every value that is not an array (undefined, null, a string, ...).      *)
(* Ids are strings.  The sentinel of an unassigned material, written as a  *)
(* CJK string literal in the source, is the string Unassigned here (the    *)
(* module is ASCII); the code only ever compares it for equality.          *)
(* An element of a collection is an entity record or Null.                 *)
(* Time stamps are naturals; 0 is an absent (falsy) time stamp.            *)
(* Only the fields that normalizeStore and the mutations read or rewrite   *)
(* are kept on an entity; the scalar fields they copy with a spread are    *)
(* left out.                                                               *)
(***************************************************************************)
EXTENDS Integers, Sequences, FiniteSets, TLC

VARIABLES
  input,    \* SpecNorm: the candidate document handed to normalizeStore;
            \* SpecFn: the argument of the function; SpecPath: the request
  norm,     \* SpecNorm: normalizeStore(input); SpecFn: the value returned;
            \* SpecPath: the locations the operation touched
  norm2,    \* SpecNorm: normalizeStore(norm)
  phase,    \* SpecNorm: "build" | "normalized" | "renormalized" | "raised"
            \* | "patched"; SpecLoad: "build" | "loaded" | "imported";
            \* Spec: "store" | "observed"; SpecAsync: "async" | "observed";
            \* SpecFn: "score" | "clamped" | "field" | "escaped";
            \* SpecGateway: "gateway" | "observed"; SpecPath: "listening" | "answered"
  clock,    \* the current time (new Date())
  store,    \* Spec: the in-memory document (useState<Store>)
  prev,     \* Spec: the document the observed state update was applied to
  lastOp,   \* Spec: the state update under observation, [op, id, arg]
  uidCount, \* Spec: number of ids uid() has handed out
  persisted,\* Spec: the document saveStore wrote to local storage
  pending   \* SpecAsync: the handler calls that have read the document and
            \* whose state update is yet to be applied

vars == <<input, norm, norm2, phase, clock, store, prev, lastOp, uidCount,
          persisted, pending>>

-----------------------------------------------------------------------------
(* Values *)

Unassigned == "unassigned"

\* d?.postResult of a Decision that has no such field
Undefined == "undefined"

Arr(s) == [isArray |-> TRUE, items |-> s]

NotArray == [isArray |-> FALSE, items |-> <<>>]

\* a top-level collection that is absent or falsy (undefined, null, 0, ""):
\* no array, as NotArray, and also rejected by the tests of loadStore and
\* handleImportFile, which NotArray (a truthy value, as {} or "x") passes
Missing == [isArray |-> FALSE, items |-> <<>>, missing |-> TRUE]

\* an array element that is null or undefined: reading a field of it throws
Null == [isNull |-> TRUE]

Contains(s, x) == \E i \in 1..Len(s) : s[i] = x

SeqToSet(s) == {s[i] : i \in 1..Len(s)}

\* s.map(F), as a sequence in hand (the concatenation makes it one)
Map(s, F(_)) == [i \in 1..Len(s) |-> F(s[i])] \o <<>>

\* Array.from(new Set(xs)): the first occurrence of every element, in order
RECURSIVE Dedup(_)
Dedup(s) ==
  IF s = <<>> THEN <<>>
  ELSE LET r == Dedup(SubSeq(s, 1, Len(s) - 1))
       IN  IF Contains(r, s[Len(s)]) THEN r ELSE Append(r, s[Len(s)])

\* s.filter((y) => y !== x)
Without(s, x) == SelectSeq(s, LAMBDA y : y # x)

\* new Set(coll.map((e) => e.id))
IdSet(coll) == {coll[i].id : i \in 1..Len(coll)}

\* uid(prefix): a fresh id; n is the number of ids handed out so far
uid(prefix, n) == prefix \o "_" \o ToString(n)

-----------------------------------------------------------------------------
(* seed() *)

\* mutant of seed: the Decision of the seed has no postResult
seed_NoPostResult(n, now) ==
  LET p1 == uid("p", n + 1)
      p2 == uid("p", n + 2)
      o1 == uid("o", n + 3)
      m1 == uid("m", n + 4)
      m2 == uid("m", n + 5)
      d1 == uid("d", n + 6)
  IN [ projects  |-> Arr(<< [id |-> p1, outreachIds |-> Arr(<<o1>>),
                             materialTaskIds |-> Arr(<<m1, m2>>)],
                            [id |-> p2, outreachIds |-> Arr(<<>>),
                             materialTaskIds |-> Arr(<<>>)] >>),
       outreach  |-> Arr(<< [id |-> o1, projectIds |-> Arr(<<p1>>)] >>),
       materials |-> Arr(<< [id |-> m1, targetProject |-> Unassigned],
                            [id |-> m2, targetProject |-> p1] >>),
       decisions |-> Arr(<< [id |-> d1, projectInternalId |-> p2,
                             postResult |-> Undefined] >>),
       meta      |-> [version |-> 1, createdAt |-> now, updatedAt |-> now] ]

\* seed() called when n ids have been handed out, at time now
seed(n, now) ==
  LET p1 == uid("p", n + 1)
      p2 == uid("p", n + 2)
      o1 == uid("o", n + 3)
      m1 == uid("m", n + 4)
      m2 == uid("m", n + 5)
      d1 == uid("d", n + 6)
  IN [ projects  |-> Arr(<< [id |-> p1, outreachIds |-> Arr(<<o1>>),
                             materialTaskIds |-> Arr(<<m1, m2>>)],
                            [id |-> p2, outreachIds |-> Arr(<<>>),
                             materialTaskIds |-> Arr(<<>>)] >>),
       outreach  |-> Arr(<< [id |-> o1, projectIds |-> Arr(<<p1>>)] >>),
       materials |-> Arr(<< [id |-> m1, targetProject |-> Unassigned],
                            [id |-> m2, targetProject |-> p1] >>),
       decisions |-> Arr(<< [id |-> d1, projectInternalId |-> p2,
                             postResult |-> ""] >>),
       meta      |-> [version |-> 1, createdAt |-> now, updatedAt |-> now] ]

-----------------------------------------------------------------------------
(* normalizeStore() *)

\* projById.get(pid): a Map built from [id, entity] pairs keeps the last
\* entity of every id; 0 when there is none
MapGet(projs, pid) ==
  IF \E i \in 1..Len(projs) : projs[i].id = pid
    THEN CHOOSE i \in 1..Len(projs) :
           /\ projs[i].id = pid
           /\ \A j \in (i + 1)..Len(projs) : projs[j].id # pid
    ELSE 0

\* mutant of PruneProject: materialTaskIds is coerced to an array, not filtered
PruneProject_KeepMaterials(p, outreachIds, materialIds) ==
  [p EXCEPT
     !.outreachIds =
        IF p.outreachIds.isArray
          THEN Arr(SelectSeq(p.outreachIds.items, LAMBDA x : x \in outreachIds))
          ELSE Arr(<<>>),
     !.materialTaskIds =
        IF p.materialTaskIds.isArray THEN p.materialTaskIds ELSE Arr(<<>>)]

\* mutant of PruneProject: outreachIds is coerced to an array, not filtered
PruneProject_KeepOutreachIds(p, outreachIds, materialIds) ==
  [p EXCEPT
     !.outreachIds =
        IF p.outreachIds.isArray THEN p.outreachIds ELSE Arr(<<>>),
     !.materialTaskIds =
        IF p.materialTaskIds.isArray
          THEN Arr(SelectSeq(p.materialTaskIds.items, LAMBDA x : x \in materialIds))
          ELSE Arr(<<>>)]

\* nextProjects = s.projects.map(...)
PruneProject(p, outreachIds, materialIds) ==
  [p EXCEPT
     !.outreachIds =
        IF p.outreachIds.isArray
          THEN Arr(SelectSeq(p.outreachIds.items, LAMBDA x : x \in outreachIds))
          ELSE Arr(<<>>),
     !.materialTaskIds =
        IF p.materialTaskIds.isArray
          THEN Arr(SelectSeq(p.materialTaskIds.items, LAMBDA x : x \in materialIds))
          ELSE Arr(<<>>)]

\* nextOutreach = s.outreach.map(...)
PruneOutreach(o, projectIds) ==
  [o EXCEPT
     !.projectIds =
        IF o.projectIds.isArray
          THEN Arr(SelectSeq(o.projectIds.items, LAMBDA pid : pid \in projectIds))
          ELSE Arr(<<>>)]

\* mutant of RetargetMaterial: a target that names no project is kept
RetargetMaterial_Keep(m, projectIds) == m

\* mutant of RetargetMaterial: the material is built from its id and its
\* target, without its other fields
RetargetMaterial_Rebuild(m, projectIds) ==
  [id |-> m.id,
   targetProject |->
     IF m.targetProject = Unassigned \/ m.targetProject \in projectIds
       THEN m.targetProject
       ELSE Unassigned]

\* nextMaterials = s.materials.map(...)
RetargetMaterial(m, projectIds) ==
  [m EXCEPT
     !.targetProject =
        IF m.targetProject = Unassigned \/ m.targetProject \in projectIds
          THEN m.targetProject
          ELSE Unassigned]

\* mutant of AddOutreachId: the id is pushed without the includes() test
AddOutreachId_Push(projs, pid, oid) ==
  LET i == MapGet(projs, pid)
  IN  IF i = 0 THEN projs
      ELSE [projs EXCEPT ![i].outreachIds =
              Arr(Append(projs[i].outreachIds.items, oid))]

\* body of the inner loop of "for (const o of nextOutreach)"
AddOutreachId(projs, pid, oid) ==
  LET i == MapGet(projs, pid)
  IN  IF i = 0 THEN projs
      ELSE IF Contains(projs[i].outreachIds.items, oid) THEN projs
      ELSE [projs EXCEPT ![i].outreachIds =
              Arr(Dedup(Append(projs[i].outreachIds.items, oid)))]

\* mutant of RepairFromOutreach: the outreach-held links are not propagated
RepairFromOutreach_Skip(projs, oid, pids) == projs

\* for (const pid of o.projectIds)
RECURSIVE RepairFromOutreach(_, _, _)
RepairFromOutreach(projs, oid, pids) ==
  IF pids = <<>> THEN projs
  ELSE RepairFromOutreach(AddOutreachId(projs, Head(pids), oid), oid, Tail(pids))

\* for (const o of nextOutreach)
RECURSIVE RepairOutreachLinks(_, _)
RepairOutreachLinks(projs, outs) ==
  IF outs = <<>> THEN projs
  ELSE RepairOutreachLinks(
         RepairFromOutreach(projs, Head(outs).id, Head(outs).projectIds.items),
         Tail(outs))

\* body of "for (const m of nextMaterials)"
AddMaterialId(projs, m) ==
  IF m.targetProject = Unassigned THEN projs
  ELSE LET i == MapGet(projs, m.targetProject)
       IN  IF i = 0 THEN projs
           ELSE IF Contains(projs[i].materialTaskIds.items, m.id) THEN projs
           ELSE [projs EXCEPT ![i].materialTaskIds =
                   Arr(Dedup(Append(projs[i].materialTaskIds.items, m.id)))]

\* for (const m of nextMaterials)
RECURSIVE RepairMaterialLinks(_, _)
RepairMaterialLinks(projs, mats) ==
  IF mats = <<>> THEN projs
  ELSE RepairMaterialLinks(AddMaterialId(projs, Head(mats)), Tail(mats))

\* for (const p of nextProjects) p.outreachIds = p.outreachIds.filter(outById.has)
FinalPrune(projs, outs) ==
  Map(projs, LAMBDA p :
     [p EXCEPT !.outreachIds =
        Arr(SelectSeq(p.outreachIds.items, LAMBDA oid : oid \in IdSet(outs)))])

\* nextDecisions
NormalizeDecisions(decs, projectIds) ==
  LET kept == SelectSeq(decs, LAMBDA d :
                d # Null /\ d.projectInternalId \in projectIds)
  IN  Map(kept, LAMBDA d :
         [d EXCEPT !.postResult = IF @ = Undefined THEN "" ELSE @])

\* mutant of Defaulted: an empty array is taken for a missing collection
Defaulted_EmptyIsMissing(in, base) ==
  [ projects  |-> IF in.projects.isArray /\ in.projects.items # <<>>
                  THEN in.projects.items ELSE base.projects.items,
    outreach  |-> IF in.outreach.isArray /\ in.outreach.items # <<>>
                  THEN in.outreach.items ELSE base.outreach.items,
    materials |-> IF in.materials.isArray /\ in.materials.items # <<>>
                  THEN in.materials.items ELSE base.materials.items,
    decisions |-> IF in.decisions.isArray /\ in.decisions.items # <<>>
                  THEN in.decisions.items ELSE base.decisions.items,
    meta      |-> [version   |-> 1,
                   createdAt |-> IF in.meta.createdAt # 0
                                   THEN in.meta.createdAt
                                   ELSE base.meta.createdAt,
                   updatedAt |-> IF in.meta.updatedAt # 0
                                   THEN in.meta.updatedAt
                                   ELSE base.meta.updatedAt] ]

\* mutant of Defaulted: one collection that is not an array makes the whole
\* document the base document
Defaulted_AllFromBase(in, base) ==
  IF in.projects.isArray /\ in.outreach.isArray /\ in.materials.isArray
       /\ in.decisions.isArray
    THEN [ projects  |-> in.projects.items,
           outreach  |-> in.outreach.items,
           materials |-> in.materials.items,
           decisions |-> in.decisions.items,
           meta      |-> [version   |-> 1,
                          createdAt |-> IF in.meta.createdAt # 0
                                          THEN in.meta.createdAt
                                          ELSE base.meta.createdAt,
                          updatedAt |-> IF in.meta.updatedAt # 0
                                          THEN in.meta.updatedAt
                                          ELSE base.meta.updatedAt] ]
    ELSE [ projects  |-> base.projects.items,
           outreach  |-> base.outreach.items,
           materials |-> base.materials.items,
           decisions |-> base.decisions.items,
           meta      |-> base.meta ]

\* const s: Store = {...}: a collection that is not an array is taken from
\* base, and so is a falsy time stamp
Defaulted(in, base) ==
  [ projects  |-> IF in.projects.isArray THEN in.projects.items
                  ELSE base.projects.items,
    outreach  |-> IF in.outreach.isArray THEN in.outreach.items
                  ELSE base.outreach.items,
    materials |-> IF in.materials.isArray THEN in.materials.items
                  ELSE base.materials.items,
    decisions |-> IF in.decisions.isArray THEN in.decisions.items
                  ELSE base.decisions.items,
    meta      |-> [version   |-> 1,
                   createdAt |-> IF in.meta.createdAt # 0
                                   THEN in.meta.createdAt
                                   ELSE base.meta.createdAt,
                   updatedAt |-> IF in.meta.updatedAt # 0
                                   THEN in.meta.updatedAt
                                   ELSE base.meta.updatedAt] ]

\* normalizeStore(input) ends in a TypeError: p.id, o.id or m.id is read of
\* an element that is null (the decisions are read with d?.)
normalizeStoreThrows(in, base) ==
  LET s == Defaulted(in, base)
  IN  \/ Contains(s.projects, Null)
      \/ Contains(s.outreach, Null)
      \/ Contains(s.materials, Null)

\* nextProjects, nextOutreach and nextMaterials as the map() calls leave them
NextProjects(s) ==
  Map(s.projects, LAMBDA p :
     PruneProject(p, IdSet(s.outreach), IdSet(s.materials)))

NextOutreach(s) ==
  Map(s.outreach, LAMBDA o : PruneOutreach(o, IdSet(s.projects)))

NextMaterials(s) ==
  Map(s.materials, LAMBDA m : RetargetMaterial(m, IdSet(s.projects)))

\* nextProjects after the two repair loops, before the final prune
RepairedProjects(s) ==
  RepairMaterialLinks(RepairOutreachLinks(NextProjects(s), NextOutreach(s)),
                      NextMaterials(s))

\* normalizeStore(input) with base = seed() and new Date() = now, when it
\* does not throw
normalizeStore(in, base, now) ==
  LET s == Defaulted(in, base)
      projectIds  == IdSet(s.projects)
      nextOutreach == NextOutreach(s)
      nextMaterials == NextMaterials(s)
      repaired == RepairedProjects(s)
  IN [ projects  |-> Arr(FinalPrune(repaired, nextOutreach)),
       outreach  |-> Arr(nextOutreach),
       materials |-> Arr(nextMaterials),
       decisions |-> Arr(NormalizeDecisions(s.decisions, projectIds)),
       meta      |-> [s.meta EXCEPT !.updatedAt = now] ]

-----------------------------------------------------------------------------
(* updateProject: the state update *)

\* normalizeStore as the state updates call it
Renormalize(doc, n) == normalizeStore(doc, seed(n, clock), clock)

\* a patch of updateProject: of the fields kept here it may carry
\* outreachIds; ScalarPatch carries none of them
ScalarPatch == [hasOutreachIds |-> FALSE, outreachIds |-> Arr(<<>>)]

OutreachIdsPatch(ids) == [hasOutreachIds |-> TRUE, outreachIds |-> Arr(ids)]

\* mutant of updateProjectUpdate: the patched document is not normalized
updateProjectUpdate_NoNormalize(s, id, patch, n) ==
  [s EXCEPT !.projects.items =
     Map(@, LAMBDA p :
        IF p.id = id /\ patch.hasOutreachIds
          THEN [p EXCEPT !.outreachIds = patch.outreachIds]
          ELSE p)]

\* the state update of updateProject(id, patch): { ...p, ...patch }
updateProjectUpdate(s, id, patch, n) ==
  Renormalize(
    [s EXCEPT !.projects.items =
       Map(@, LAMBDA p :
          IF p.id = id /\ patch.hasOutreachIds
            THEN [p EXCEPT !.outreachIds = patch.outreachIds]
            ELSE p)],
    n)

-----------------------------------------------------------------------------
(* SpecNorm: normalizeStore applied to candidate documents.                *)
(* A candidate is built one piece at a time (an entity, a reference id, a  *)
(* collection or a reference field that is not an array, a creation time)  *)
(* until it has MaxSize pieces; ids come from two-element pools, so that a *)
(* reference dangles whenever its entity was not added, and an id may be   *)
(* given to two entities or listed twice.                                  *)

MaxSize == 5

ProjectIdPool == {"pA", "pB"}

OutreachIdPool == {"oA", "oB"}

MaterialIdPool == {"mA", "mB"}

\* The ids an added entity may take: one already taken in its collection, or
\* the first id of the pool, or the second once the first is taken.  The code
\* compares ids only for equality, so a candidate whose first entity is
\* named pB is the candidate with pA and pB exchanged throughout.
EntityIds(coll, first, pool) ==
  IF \E i \in 1..Len(coll) : coll[i] # Null /\ coll[i].id = first
    THEN pool ELSE {first}

DecisionIdPool == {"dA"}

PostResults == {Undefined, "Offer"}

EmptyDoc ==
  [ projects |-> Arr(<<>>), outreach |-> Arr(<<>>), materials |-> Arr(<<>>),
    decisions |-> Arr(<<>>),
    meta |-> [version |-> 1, createdAt |-> 0, updatedAt |-> 0] ]

NoOp == [op |-> "none", id |-> "", arg |-> ""]

ListSize(l) == IF l.isArray THEN Len(l.items) ELSE 1

ProjectSize(p) ==
  IF p = Null THEN 1
  ELSE 1 + ListSize(p.outreachIds) + ListSize(p.materialTaskIds)

OutreachSize(o) == IF o = Null THEN 1 ELSE 1 + ListSize(o.projectIds)

RECURSIVE SumProjects(_)
SumProjects(s) ==
  IF s = <<>> THEN 0 ELSE ProjectSize(Head(s)) + SumProjects(Tail(s))

RECURSIVE SumOutreach(_)
SumOutreach(s) ==
  IF s = <<>> THEN 0 ELSE OutreachSize(Head(s)) + SumOutreach(Tail(s))

\* the scalar field an entity of a candidate may carry (name, title, ...)
\* and its values
ScalarField == "name"

ScalarValues == {"n1", "n2"}

HasScalar(e) == e # Null /\ ScalarField \in DOMAIN e

\* number of entities of the candidate that carry the scalar field
Scalars(d) ==
  LET Count(l) == IF l.isArray
                    THEN Cardinality({i \in 1..Len(l.items) : HasScalar(l.items[i])})
                    ELSE 0
  IN  Count(d.projects) + Count(d.outreach) + Count(d.materials)
        + Count(d.decisions)

\* number of pieces of a candidate document
Size(d) ==
    (IF d.projects.isArray THEN SumProjects(d.projects.items) ELSE 1)
  + (IF d.outreach.isArray THEN SumOutreach(d.outreach.items) ELSE 1)
  + ListSize(d.materials)
  + ListSize(d.decisions)
  + (IF d.meta.createdAt # 0 THEN 1 ELSE 0)
  + Scalars(d)

Building == phase = "build" /\ Size(input) < MaxSize

NormFrame == UNCHANGED <<store, prev, lastOp, persisted, pending>>

CandAddProject ==
  /\ Building /\ input.projects.isArray
  /\ \E id \in EntityIds(input.projects.items, "pA", ProjectIdPool) :
       input' = [input EXCEPT !.projects.items =
                   Append(@, [id |-> id, outreachIds |-> Arr(<<>>),
                              materialTaskIds |-> Arr(<<>>)])]
  /\ UNCHANGED <<norm, norm2, phase, clock, uidCount>> /\ NormFrame

CandAddOutreach ==
  /\ Building /\ input.outreach.isArray
  /\ \E id \in EntityIds(input.outreach.items, "oA", OutreachIdPool) :
       input' = [input EXCEPT !.outreach.items =
                   Append(@, [id |-> id, projectIds |-> Arr(<<>>)])]
  /\ UNCHANGED <<norm, norm2, phase, clock, uidCount>> /\ NormFrame

CandAddMaterial ==
  /\ Building /\ input.materials.isArray
  /\ \E id \in EntityIds(input.materials.items, "mA", MaterialIdPool),
        t \in ProjectIdPool \cup {Unassigned} :
       input' = [input EXCEPT !.materials.items =
                   Append(@, [id |-> id, targetProject |-> t])]
  /\ UNCHANGED <<norm, norm2, phase, clock, uidCount>> /\ NormFrame

CandAddDecision ==
  /\ Building /\ input.decisions.isArray
  /\ \E id \in DecisionIdPool, pid \in ProjectIdPool, r \in PostResults :
       input' = [input EXCEPT !.decisions.items =
                   Append(@, [id |-> id, projectInternalId |-> pid,
                              postResult |-> r])]
  /\ UNCHANGED <<norm, norm2, phase, clock, uidCount>> /\ NormFrame

CandAddOutreachRef ==
  /\ Building /\ input.projects.isArray
  /\ \E i \in 1..Len(input.projects.items), oid \in OutreachIdPool :
       /\ input.projects.items[i] # Null
       /\ input.projects.items[i].outreachIds.isArray
       /\ input' = [input EXCEPT !.projects.items[i].outreachIds.items =
                      Append(@, oid)]
  /\ UNCHANGED <<norm, norm2, phase, clock, uidCount>> /\ NormFrame

CandAddMaterialRef ==
  /\ Building /\ input.projects.isArray
  /\ \E i \in 1..Len(input.projects.items), mid \in MaterialIdPool :
       /\ input.projects.items[i] # Null
       /\ input.projects.items[i].materialTaskIds.isArray
       /\ input' = [input EXCEPT !.projects.items[i].materialTaskIds.items =
                      Append(@, mid)]
  /\ UNCHANGED <<norm, norm2, phase, clock, uidCount>> /\ NormFrame

CandAddProjectRef ==
  /\ Building /\ input.outreach.isArray
  /\ \E i \in 1..Len(input.outreach.items), pid \in ProjectIdPool :
       /\ input.outreach.items[i] # Null
       /\ input.outreach.items[i].projectIds.isArray
       /\ input' = [input EXCEPT !.outreach.items[i].projectIds.items =
                      Append(@, pid)]
  /\ UNCHANGED <<norm, norm2, phase, clock, uidCount>> /\ NormFrame

\* a top-level collection that is missing or not an array
CandDropCollection ==
  /\ Building
  /\ \E c \in {"projects", "outreach", "materials", "decisions"} :
       /\ input[c] = Arr(<<>>)
       /\ input' = [input EXCEPT ![c] = NotArray]
  /\ UNCHANGED <<norm, norm2, phase, clock, uidCount>> /\ NormFrame

\* a reference field that is missing or not an array
CandDropField ==
  /\ Building
  /\ \/ /\ input.projects.isArray
        /\ \E i \in 1..Len(input.projects.items) :
             /\ input.projects.items[i] # Null
             /\ \/ /\ input.projects.items[i].outreachIds = Arr(<<>>)
                   /\ input' = [input EXCEPT
                                  !.projects.items[i].outreachIds = NotArray]
                \/ /\ input.projects.items[i].materialTaskIds = Arr(<<>>)
                   /\ input' = [input EXCEPT
                                  !.projects.items[i].materialTaskIds = NotArray]
     \/ /\ input.outreach.isArray
        /\ \E i \in 1..Len(input.outreach.items) :
             /\ input.outreach.items[i] # Null
             /\ input.outreach.items[i].projectIds = Arr(<<>>)
             /\ input' = [input EXCEPT
                            !.outreach.items[i].projectIds = NotArray]
  /\ UNCHANGED <<norm, norm2, phase, clock, uidCount>> /\ NormFrame

\* an element of a collection that is null
CandAddNull ==
  /\ Building
  /\ \E c \in {"projects", "outreach", "materials", "decisions"} :
       /\ input[c].isArray
       /\ input' = [input EXCEPT ![c].items = Append(@, Null)]
  /\ UNCHANGED <<norm, norm2, phase, clock, uidCount>> /\ NormFrame

\* a candidate that carries meta.createdAt
CandSetCreatedAt ==
  /\ Building /\ input.meta.createdAt = 0
  /\ input' = [input EXCEPT !.meta.createdAt = 1, !.meta.updatedAt = 1]
  /\ UNCHANGED <<norm, norm2, phase, clock, uidCount>> /\ NormFrame

\* {...e, name: v}
WithScalar(e, v) ==
  [f \in DOMAIN e \cup {ScalarField} |-> IF f = ScalarField THEN v ELSE e[f]]

\* a candidate in which an entity carries a scalar field
CandSetScalar ==
  /\ Building
  /\ \E c \in {"projects", "outreach", "materials", "decisions"} :
       /\ input[c].isArray
       /\ \E i \in 1..Len(input[c].items), v \in ScalarValues :
            /\ input[c].items[i] # Null
            /\ ~HasScalar(input[c].items[i])
            /\ input' = [input EXCEPT ![c].items[i] = WithScalar(@, v)]
  /\ UNCHANGED <<norm, norm2, phase, clock, uidCount>> /\ NormFrame

\* norm = normalizeStore(input), or the call ends in a TypeError
Normalize ==
  /\ phase = "build"
  /\ IF normalizeStoreThrows(input, seed(uidCount, clock))
       THEN phase' = "raised" /\ UNCHANGED norm
       ELSE /\ norm' = normalizeStore(input, seed(uidCount, clock), clock)
            /\ phase' = "normalized"
  /\ uidCount' = uidCount + 6
  /\ clock' = clock + 1
  /\ UNCHANGED <<input, norm2>> /\ NormFrame

\* norm2 = normalizeStore(norm)
NormalizeAgain ==
  /\ phase = "normalized"
  /\ norm2' = normalizeStore(norm, seed(uidCount, clock), clock)
  /\ uidCount' = uidCount + 6
  /\ clock' = clock + 1
  /\ phase' = "renormalized"
  /\ UNCHANGED <<input, norm>> /\ NormFrame

InitNorm ==
  /\ input = EmptyDoc /\ norm = EmptyDoc /\ norm2 = EmptyDoc
  /\ phase = "build" /\ clock = 2 /\ uidCount = 0
  /\ store = EmptyDoc /\ prev = EmptyDoc /\ lastOp = NoOp
  /\ persisted = EmptyDoc /\ pending = {}

\* updateProject(P, {outreachIds: ...}) on the normalized document, with a
\* patch that takes the outreach O out of the list of P and nothing else
updateProjectUnlink ==
  /\ phase = "normalized"
  /\ \E i \in 1..Len(norm.projects.items) :
       \E o \in SeqToSet(norm.projects.items[i].outreachIds.items) :
         LET P == norm.projects.items[i]
         IN  /\ norm2' = updateProjectUpdate(
                           norm, P.id,
                           OutreachIdsPatch(Without(P.outreachIds.items, o)),
                           uidCount)
             /\ lastOp' = [op |-> "updateProject", id |-> P.id, arg |-> o]
  /\ phase' = "patched"
  /\ UNCHANGED <<input, norm, clock, uidCount, store, prev, persisted, pending>>

NextNorm ==
  \/ CandAddProject \/ CandAddOutreach \/ CandAddMaterial \/ CandAddDecision
  \/ CandAddOutreachRef \/ CandAddMaterialRef \/ CandAddProjectRef
  \/ CandDropCollection \/ CandDropField \/ CandAddNull \/ CandSetCreatedAt
  \/ CandSetScalar
  \/ Normalize \/ NormalizeAgain \/ updateProjectUnlink

SpecNorm == InitNorm /\ [][NextNorm]_vars

-----------------------------------------------------------------------------
(* SpecLoad: loadStore and handleImportFile on candidate documents.        *)
(* The candidate is the value that JSON.parse gives for the persisted text *)
(* or the imported file; a text is "json" (it parses to the candidate),    *)
(* "absent" (no text, or the empty text) or "unparsable".  The in-memory   *)
(* document that an import replaces is the seed document.                  *)

NoId == ""

Texts == {"json", "absent", "unparsable"}

Collections == {"projects", "outreach", "materials", "decisions"}

\* !parsed?.projects || !parsed?.outreach || !parsed?.materials
\*   || !parsed?.decisions
LacksCollection(parsed) == \E c \in Collections : parsed[c] = Missing

\* a top-level collection that is absent or falsy
CandMissCollection ==
  /\ Building
  /\ \E c \in Collections :
       /\ input[c] = Arr(<<>>)
       /\ input' = [input EXCEPT ![c] = Missing]
  /\ UNCHANGED <<norm, norm2, phase, clock, uidCount>> /\ NormFrame

\* whether normalizeStore(parsed), called by loadStore or handleImportFile,
\* is reached and throws; the catch block takes over
ThrowsInTry(text, parsed, n, now) ==
  /\ text = "json" /\ ~LacksCollection(parsed)
  /\ normalizeStoreThrows(parsed, seed(n, now))

\* loadStore() on the persisted text, when n ids have been handed out
loadStore(text, parsed, n, now) ==
  IF text # "json" THEN seed(n, now)
  ELSE IF LacksCollection(parsed) THEN seed(n, now)
  ELSE IF normalizeStoreThrows(parsed, seed(n, now)) THEN seed(n + 6, now)
  ELSE normalizeStore(parsed, seed(n, now), now)

\* useState(() => loadStore())
LoadPersisted ==
  /\ phase = "build"
  /\ \E text \in Texts :
       /\ text # "json" => input = EmptyDoc
       /\ store' = loadStore(text, input, uidCount, clock)
       /\ lastOp' = [op |-> "loadStore", id |-> NoId, arg |-> text]
       /\ uidCount' = IF ThrowsInTry(text, input, uidCount, clock)
                        THEN uidCount + 12 ELSE uidCount + 6
  /\ phase' = "loaded"
  /\ clock' = clock + 1
  /\ UNCHANGED <<input, norm, norm2, prev, persisted, pending>>

\* handleImportFile(file), reader.onload: the document the store holds
\* afterwards, s being the one it held; a throw in the try block leaves s
handleImportFileUpdate(text, parsed, s, n, now) ==
  IF text # "json" \/ LacksCollection(parsed) THEN s
  ELSE IF normalizeStoreThrows(parsed, seed(n, now)) THEN s
  ELSE normalizeStore([parsed EXCEPT !.meta.updatedAt = now],
                      seed(n, now), now)

\* handleImportFile on the candidate
ImportCandidate ==
  /\ phase = "build"
  /\ \E text \in Texts :
       /\ text # "json" => input = EmptyDoc
       /\ lastOp' = [op |-> "handleImportFile", id |-> NoId, arg |-> text]
       /\ store' = handleImportFileUpdate(text, input, store, uidCount, clock)
       /\ uidCount' = IF text # "json" \/ LacksCollection(input)
                        THEN uidCount ELSE uidCount + 6
  /\ prev' = store
  /\ phase' = "imported"
  /\ clock' = clock + 1
  /\ UNCHANGED <<input, norm, norm2, persisted, pending>>

InitLoad ==
  /\ input = EmptyDoc /\ norm = EmptyDoc /\ norm2 = EmptyDoc
  /\ phase = "build" /\ clock = 2 /\ uidCount = 6
  /\ store = seed(0, 1) /\ prev = seed(0, 1) /\ lastOp = NoOp
  /\ persisted = EmptyDoc /\ pending = {}

NextLoad ==
  \/ CandAddProject \/ CandAddOutreach \/ CandAddMaterial \/ CandAddDecision
  \/ CandAddOutreachRef \/ CandAddMaterialRef \/ CandAddProjectRef
  \/ CandDropCollection \/ CandMissCollection \/ CandDropField
  \/ CandAddNull \/ CandSetCreatedAt
  \/ LoadPersisted \/ ImportCandidate

SpecLoad == InitLoad /\ [][NextLoad]_vars

-----------------------------------------------------------------------------
(* Spec: the store of SummerResearchTrackerApp, from the seed document.    *)
(* Every action is one handler with the state update it passes to          *)
(* setStore, normalizeStore included.  The handlers that wait for the      *)
(* gateway (addProject, deleteProject, updateMaterial, deleteMaterial)     *)
(* are taken in one step here: the update runs on the document of the      *)
(* moment, whatever the gateway answered.  The materials of this           *)
(* specification carry no file link, so updateMaterial and deleteMaterial  *)
(* make no gateway call.  A patch of scalar fields changes nothing that is *)
(* kept on an entity here and leaves only the renormalization.             *)
(* The imported files hold arrays or lack a collection, so that no entity  *)
(* of the seed() of normalizeStore comes into the document.                *)
(* uidCount counts the ids that went into the document; the ids of the     *)
(* seed() that normalizeStore builds and throws away are not counted.      *)

MaxUid == 7

Find(coll, id) ==
  IF \E i \in 1..Len(coll) : coll[i].id = id
    THEN CHOOSE i \in 1..Len(coll) :
           coll[i].id = id /\ \A j \in 1..(i - 1) : coll[j].id # id
    ELSE 0

\* the application is running: Spec ("store") or SpecAsync ("async")
Live == phase \in {"store", "async"}

\* the handlers that wait for the gateway before their state update
GatewayOps ==
  {"addProject", "updateProject", "deleteProject", "updateMaterial",
   "deleteMaterial"}

\* saveStore(s): the document that is written to local storage.
\* JSON.stringify writes the strings and the arrays of strings kept here as
\* they are.
saveStore(s, n, now) ==
  normalizeStore([s EXCEPT !.meta.updatedAt = now], seed(n, now), now)

\* setStore(next), and the effect that saves the new document.  The history
\* variables are written by the one state
\* update that is under observation, which ends the behaviour: every
\* document the store can hold is reached without history, and every state
\* update on it is observed once, with the document it was applied to.
\* Under SpecAsync the updates observed are those of the gateway handlers.
SetStore(next, op, id, arg) ==
  /\ store' = next
  /\ persisted' = saveStore(next, uidCount, clock)
  /\ \/ UNCHANGED <<prev, lastOp, phase>>
     \/ /\ phase = "store" \/ op \in GatewayOps
        /\ prev' = store
        /\ lastOp' = [op |-> op, id |-> id, arg |-> arg]
        /\ phase' = "observed"

StoreFrame == UNCHANGED <<input, norm, norm2, clock, pending>>

addProject ==
  /\ Live /\ uidCount < MaxUid
  /\ LET p == [id |-> uid("p", uidCount + 1), outreachIds |-> Arr(<<>>),
               materialTaskIds |-> Arr(<<>>)]
     IN  SetStore(Renormalize([store EXCEPT !.projects.items = <<p>> \o @],
                              uidCount + 1),
                  "addProject", p.id, NoId)
  /\ uidCount' = uidCount + 1
  /\ StoreFrame

\* updateProject with a patch of scalar fields
updateProject ==
  /\ Live
  /\ \E id \in IdSet(store.projects.items) :
       SetStore(updateProjectUpdate(store, id, ScalarPatch, uidCount),
                "updateProject", id, NoId)
  /\ UNCHANGED uidCount /\ StoreFrame

\* mutant of deleteProjectUpdate: the materials of the project are deleted
\* with it instead of being reset
deleteProjectUpdate_DropMaterials(s, id) ==
  [s EXCEPT
     !.projects.items = SelectSeq(@, LAMBDA p : p.id # id),
     !.decisions.items = SelectSeq(@, LAMBDA d : d.projectInternalId # id),
     !.outreach.items =
        Map(@, LAMBDA o : [o EXCEPT !.projectIds = Arr(Without(@.items, id))]),
     !.materials.items = SelectSeq(@, LAMBDA m : m.targetProject # id)]

\* mutant of deleteProjectUpdate: every Decision is deleted with the project
deleteProjectUpdate_DropAllDecisions(s, id) ==
  [s EXCEPT
     !.projects.items = SelectSeq(@, LAMBDA p : p.id # id),
     !.decisions.items = <<>>,
     !.outreach.items =
        Map(@, LAMBDA o : [o EXCEPT !.projectIds = Arr(Without(@.items, id))]),
     !.materials.items =
        Map(@, LAMBDA m : IF m.targetProject = id
                            THEN [m EXCEPT !.targetProject = Unassigned]
                            ELSE m)]

deleteProjectUpdate(s, id) ==
  [s EXCEPT
     !.projects.items = SelectSeq(@, LAMBDA p : p.id # id),
     !.decisions.items = SelectSeq(@, LAMBDA d : d.projectInternalId # id),
     !.outreach.items =
        Map(@, LAMBDA o : [o EXCEPT !.projectIds = Arr(Without(@.items, id))]),
     !.materials.items =
        Map(@, LAMBDA m : IF m.targetProject = id
                            THEN [m EXCEPT !.targetProject = Unassigned]
                            ELSE m)]

deleteProject ==
  /\ Live
  /\ \E id \in IdSet(store.projects.items) :
       SetStore(Renormalize(deleteProjectUpdate(store, id), uidCount),
                "deleteProject", id, NoId)
  /\ UNCHANGED uidCount /\ StoreFrame

addOutreachUpdate(s, o, linkProjectId) ==
  [s EXCEPT
     !.outreach.items = <<o>> \o @,
     !.projects.items =
        IF linkProjectId # NoId
          THEN Map(@, LAMBDA p :
                  IF p.id = linkProjectId
                    THEN [p EXCEPT !.outreachIds =
                            Arr(Dedup(Append(@.items, o.id)))]
                    ELSE p)
          ELSE @]

addOutreach ==
  /\ Live /\ uidCount < MaxUid
  /\ \E linkProjectId \in IdSet(store.projects.items) \cup {NoId} :
       LET o == [id |-> uid("o", uidCount + 1),
                 projectIds |-> IF linkProjectId # NoId
                                  THEN Arr(<<linkProjectId>>) ELSE Arr(<<>>)]
       IN  SetStore(Renormalize(addOutreachUpdate(store, o, linkProjectId),
                                uidCount + 1),
                    "addOutreach", o.id, linkProjectId)
  /\ uidCount' = uidCount + 1
  /\ StoreFrame

\* updateOutreach with a patch of scalar fields
updateOutreach ==
  /\ Live
  /\ \E id \in IdSet(store.outreach.items) :
       SetStore(Renormalize(store, uidCount), "updateOutreach", id, NoId)
  /\ UNCHANGED uidCount /\ StoreFrame

\* mutant of linkOutreachUpdate: the link is recorded on the project alone
linkOutreachUpdate_ProjectOnly(s, outreachId, projectId) ==
  IF Find(s.outreach.items, outreachId) = 0 \/ Find(s.projects.items, projectId) = 0
    THEN s
    ELSE Renormalize(
           [s EXCEPT
              !.projects.items =
                 Map(@, LAMBDA x :
                    IF x.id = projectId
                      THEN [x EXCEPT !.outreachIds =
                              Arr(Dedup(Append(@.items, outreachId)))]
                      ELSE x)],
           uidCount)

linkOutreachUpdate(s, outreachId, projectId) ==
  IF Find(s.outreach.items, outreachId) = 0 \/ Find(s.projects.items, projectId) = 0
    THEN s
    ELSE Renormalize(
           [s EXCEPT
              !.outreach.items =
                 Map(@, LAMBDA x :
                    IF x.id = outreachId
                      THEN [x EXCEPT !.projectIds =
                              Arr(Dedup(Append(@.items, projectId)))]
                      ELSE x),
              !.projects.items =
                 Map(@, LAMBDA x :
                    IF x.id = projectId
                      THEN [x EXCEPT !.outreachIds =
                              Arr(Dedup(Append(@.items, outreachId)))]
                      ELSE x)],
           uidCount)

\* the id of an entity that the document holds no more
StaleId == "stale"

\* linkOutreachToProject(outreachId, projectId), also called with an id
\* whose entity has been deleted
linkOutreachToProject ==
  /\ Live
  /\ \E outreachId \in IdSet(store.outreach.items) \cup {StaleId},
        projectId \in IdSet(store.projects.items) \cup {StaleId} :
       SetStore(linkOutreachUpdate(store, outreachId, projectId),
                "linkOutreachToProject", outreachId, projectId)
  /\ UNCHANGED uidCount /\ StoreFrame

unlinkOutreachUpdate(s, outreachId, projectId) ==
  [s EXCEPT
     !.projects.items =
        Map(@, LAMBDA proj :
           IF proj.id = projectId
             THEN [proj EXCEPT !.outreachIds = Arr(Without(@.items, outreachId))]
             ELSE proj),
     !.outreach.items =
        Map(@, LAMBDA o :
           IF o.id = outreachId
             THEN [o EXCEPT !.projectIds = Arr(Without(@.items, projectId))]
             ELSE o)]

\* onUnlinkOutreach of the project p: offered for the outreach p lists
onUnlinkOutreach ==
  /\ Live
  /\ \E i \in 1..Len(store.projects.items) :
       \E outreachId \in SeqToSet(store.projects.items[i].outreachIds.items) :
         SetStore(Renormalize(unlinkOutreachUpdate(store, outreachId,
                                                   store.projects.items[i].id),
                              uidCount),
                  "onUnlinkOutreach", outreachId, store.projects.items[i].id)
  /\ UNCHANGED uidCount /\ StoreFrame

deleteOutreachUpdate(s, id) ==
  [s EXCEPT
     !.outreach.items = SelectSeq(@, LAMBDA o : o.id # id),
     !.projects.items =
        Map(@, LAMBDA p : [p EXCEPT !.outreachIds = Arr(Without(@.items, id))])]

deleteOutreach ==
  /\ Live
  /\ \E id \in IdSet(store.outreach.items) :
       SetStore(Renormalize(deleteOutreachUpdate(store, id), uidCount),
                "deleteOutreach", id, NoId)
  /\ UNCHANGED uidCount /\ StoreFrame

addMaterialUpdate(s, m, linkProjectId) ==
  [s EXCEPT
     !.materials.items = <<m>> \o @,
     !.projects.items =
        IF linkProjectId # NoId
          THEN Map(@, LAMBDA p :
                  IF p.id = linkProjectId
                    THEN [p EXCEPT !.materialTaskIds =
                            Arr(Dedup(Append(@.items, m.id)))]
                    ELSE p)
          ELSE @]

addMaterial ==
  /\ Live /\ uidCount < MaxUid
  /\ \E linkProjectId \in IdSet(store.projects.items) \cup {NoId} :
       LET m == [id |-> uid("m", uidCount + 1),
                 targetProject |-> IF linkProjectId # NoId
                                     THEN linkProjectId ELSE Unassigned]
       IN  SetStore(Renormalize(addMaterialUpdate(store, m, linkProjectId),
                                uidCount + 1),
                    "addMaterial", m.id, linkProjectId)
  /\ uidCount' = uidCount + 1
  /\ StoreFrame

\* mutant of updateMaterialUpdate: the id is added to the new target's list
\* and not taken out of the old target's
updateMaterialUpdate_NoRemove(s, id, patchTarget) ==
  LET c == Find(s.materials.items, id)
  IN  IF c = 0 THEN s
      ELSE
        LET oldTarget == s.materials.items[c].targetProject
            newTarget == IF patchTarget # Undefined THEN patchTarget ELSE oldTarget
            nextMaterials ==
              Map(s.materials.items, LAMBDA m :
                 IF m.id = id /\ patchTarget # Undefined
                   THEN [m EXCEPT !.targetProject = patchTarget]
                   ELSE m)
            Moved(p) ==
              LET ids0 == IF p.materialTaskIds.isArray
                            THEN p.materialTaskIds.items ELSE <<>>
                  ids2 == IF newTarget # Unassigned /\ p.id = newTarget
                            THEN Dedup(Append(ids0, id)) ELSE ids0
              IN  [p EXCEPT !.materialTaskIds = Arr(ids2)]
            nextProjects ==
              IF newTarget # oldTarget
                THEN Map(s.projects.items, Moved)
                ELSE s.projects.items
        IN  Renormalize([s EXCEPT !.materials.items = nextMaterials,
                                  !.projects.items = nextProjects],
                        uidCount)

\* mutant of updateMaterialUpdate: the updated document is not normalized
updateMaterialUpdate_NoNormalize(s, id, patchTarget) ==
  LET c == Find(s.materials.items, id)
  IN  IF c = 0 THEN s
      ELSE
        LET oldTarget == s.materials.items[c].targetProject
            newTarget == IF patchTarget # Undefined THEN patchTarget ELSE oldTarget
            nextMaterials ==
              Map(s.materials.items, LAMBDA m :
                 IF m.id = id /\ patchTarget # Undefined
                   THEN [m EXCEPT !.targetProject = patchTarget]
                   ELSE m)
            Moved(p) ==
              LET ids0 == IF p.materialTaskIds.isArray
                            THEN p.materialTaskIds.items ELSE <<>>
                  ids1 == IF oldTarget # Unassigned /\ p.id = oldTarget
                            THEN Without(ids0, id) ELSE ids0
                  ids2 == IF newTarget # Unassigned /\ p.id = newTarget
                            THEN Dedup(Append(ids1, id)) ELSE ids1
              IN  [p EXCEPT !.materialTaskIds = Arr(ids2)]
            nextProjects ==
              IF newTarget # oldTarget
                THEN Map(s.projects.items, Moved)
                ELSE s.projects.items
        IN  [s EXCEPT !.materials.items = nextMaterials,
                      !.projects.items = nextProjects]

\* the state update of updateMaterial(id, patch); patchTarget is
\* patch.targetProject, Undefined when the patch has none
updateMaterialUpdate(s, id, patchTarget) ==
  LET c == Find(s.materials.items, id)
  IN  IF c = 0 THEN s
      ELSE
        LET oldTarget == s.materials.items[c].targetProject
            newTarget == IF patchTarget # Undefined THEN patchTarget ELSE oldTarget
            nextMaterials ==
              Map(s.materials.items, LAMBDA m :
                 IF m.id = id /\ patchTarget # Undefined
                   THEN [m EXCEPT !.targetProject = patchTarget]
                   ELSE m)
            Moved(p) ==
              LET ids0 == IF p.materialTaskIds.isArray
                            THEN p.materialTaskIds.items ELSE <<>>
                  ids1 == IF oldTarget # Unassigned /\ p.id = oldTarget
                            THEN Without(ids0, id) ELSE ids0
                  ids2 == IF newTarget # Unassigned /\ p.id = newTarget
                            THEN Dedup(Append(ids1, id)) ELSE ids1
              IN  [p EXCEPT !.materialTaskIds = Arr(ids2)]
            nextProjects ==
              IF newTarget # oldTarget
                THEN Map(s.projects.items, Moved)
                ELSE s.projects.items
        IN  Renormalize([s EXCEPT !.materials.items = nextMaterials,
                                  !.projects.items = nextProjects],
                        uidCount)

updateMaterial ==
  /\ Live
  /\ \E id \in IdSet(store.materials.items),
        patchTarget \in IdSet(store.projects.items) \cup {Unassigned, Undefined} :
       SetStore(updateMaterialUpdate(store, id, patchTarget),
                "updateMaterial", id, patchTarget)
  /\ UNCHANGED uidCount /\ StoreFrame

\* mutant of deleteMaterialUpdate: the projects that list the material are
\* deleted with it
deleteMaterialUpdate_Cascade(s, id) ==
  [s EXCEPT
     !.materials.items = SelectSeq(@, LAMBDA m : m.id # id),
     !.projects.items =
        SelectSeq(@, LAMBDA p : ~Contains(p.materialTaskIds.items, id))]

deleteMaterialUpdate(s, id) ==
  [s EXCEPT
     !.materials.items = SelectSeq(@, LAMBDA m : m.id # id),
     !.projects.items =
        Map(@, LAMBDA p :
           [p EXCEPT !.materialTaskIds = Arr(Without(@.items, id))])]

deleteMaterial ==
  /\ Live
  /\ \E id \in IdSet(store.materials.items) :
       SetStore(Renormalize(deleteMaterialUpdate(store, id), uidCount),
                "deleteMaterial", id, NoId)
  /\ UNCHANGED uidCount /\ StoreFrame

\* ensureDecisionForProject(pid) for a project without a Decision; with one
\* it returns the Decision's id and updates nothing
ensureDecisionForProject ==
  /\ Live /\ uidCount < MaxUid
  /\ \E pid \in IdSet(store.projects.items) :
       /\ \A i \in 1..Len(store.decisions.items) :
            store.decisions.items[i].projectInternalId # pid
       /\ LET d == [id |-> uid("d", uidCount + 1), projectInternalId |-> pid,
                    postResult |-> ""]
          IN  SetStore(Renormalize([store EXCEPT !.decisions.items = <<d>> \o @],
                                   uidCount + 1),
                       "ensureDecisionForProject", d.id, pid)
  /\ uidCount' = uidCount + 1
  /\ StoreFrame

\* updateDecision with a patch of scalar fields
updateDecision ==
  /\ Live
  /\ \E id \in IdSet(store.decisions.items) :
       SetStore(Renormalize(store, uidCount), "updateDecision", id, NoId)
  /\ UNCHANGED uidCount /\ StoreFrame

\* resetAll(), confirmed: a fresh seed document
resetAll ==
  /\ Live /\ uidCount <= MaxUid
  /\ SetStore(seed(uidCount, clock), "resetAll", NoId, NoId)
  /\ uidCount' = uidCount + 6
  /\ StoreFrame

\* The files offered for import: one that lacks a collection, and one of
\* four arrays in which the project alone records its link to the
\* outreach, the material targets no project and the project has two
\* decisions.
FileNames == {"linked", "lacking"}

File(name) ==
  LET linked ==
        [ projects  |-> Arr(<< [id |-> "pA", outreachIds |-> Arr(<<"oA">>),
                                materialTaskIds |-> Arr(<<>>)] >>),
          outreach  |-> Arr(<< [id |-> "oA", projectIds |-> Arr(<<>>)] >>),
          materials |-> Arr(<< [id |-> "mA", targetProject |-> "pZ"] >>),
          decisions |-> Arr(<< [id |-> "dA", projectInternalId |-> "pA",
                                postResult |-> Undefined],
                               [id |-> "dB", projectInternalId |-> "pA",
                                postResult |-> "Offer"] >>),
          meta      |-> [version |-> 1, createdAt |-> 1, updatedAt |-> 1] ]
  IN  IF name = "linked" THEN linked
      ELSE [linked EXCEPT !.decisions = Missing]

\* handleImportFile(file) of a file that parses, or of one that does not
handleImportFile ==
  /\ Live
  /\ \E name \in FileNames, text \in {"json", "unparsable"} :
       /\ text # "json" => name = "lacking"
       /\ SetStore(handleImportFileUpdate(text, File(name), store, uidCount,
                                          clock),
                   "handleImportFile", name, text)
  /\ UNCHANGED uidCount /\ StoreFrame

\* useState(() => loadStore()) on an empty local storage: the seed document
Init ==
  /\ store = seed(0, 1) /\ prev = seed(0, 1) /\ lastOp = NoOp
  /\ uidCount = 6 /\ clock = 1 /\ phase = "store"
  /\ persisted = saveStore(seed(0, 1), 6, 1) /\ pending = {}
  /\ input = EmptyDoc /\ norm = EmptyDoc /\ norm2 = EmptyDoc

Next ==
  \/ addProject \/ updateProject \/ deleteProject
  \/ addOutreach \/ updateOutreach \/ linkOutreachToProject \/ onUnlinkOutreach
  \/ deleteOutreach
  \/ addMaterial \/ updateMaterial \/ deleteMaterial
  \/ ensureDecisionForProject \/ updateDecision
  \/ resetAll \/ handleImportFile

Spec == Init /\ [][Next]_vars

-----------------------------------------------------------------------------
(* SpecAsync: the handlers that wait.  addProject, updateProject,
   deleteProject, updateMaterial and deleteMaterial read the rendered
   document, await the gateway, and call setStore with a state update after
   the answer; ensureDecisionForProject reads the rendered document and its
   state update is applied when the view re-renders.  Between the read and
   the state update any other handler may run.  A call in `pending` is
   [op, id, arg]: what the handler keeps from the document it read.
   Two calls that keep the same values are one element of the set: they
   apply the same state update, and applying it a second time is a
   normalization of a normalized document. *)

\* the number of handler calls that can wait at the same time
MaxPending == 2

Call(op, id, arg) == [op |-> op, id |-> id, arg |-> arg]

Suspend(c) ==
  /\ Live /\ Cardinality(pending \cup {c}) <= MaxPending
  /\ pending' = pending \cup {c}
  /\ UNCHANGED <<input, norm, norm2, clock, store, prev, lastOp, phase,
                 persisted>>

AsyncFrame == UNCHANGED <<input, norm, norm2, clock>>

\* addProject(): the name is given and the folder is requested
addProjectCall ==
  /\ Suspend(Call("addProject", NoId, NoId))
  /\ UNCHANGED uidCount

\* addProject() after the answer: uid("p") and the state update
addProjectResume ==
  /\ Live /\ uidCount < MaxUid
  /\ \E c \in pending :
       /\ c.op = "addProject"
       /\ pending' = pending \ {c}
       /\ LET p == [id |-> uid("p", uidCount + 1), outreachIds |-> Arr(<<>>),
                    materialTaskIds |-> Arr(<<>>)]
          IN  SetStore(Renormalize([store EXCEPT !.projects.items = <<p>> \o @],
                                   uidCount + 1),
                       "addProject", p.id, NoId)
  /\ uidCount' = uidCount + 1
  /\ AsyncFrame

\* updateProject(id, patch) with a new name: the rename is requested
updateProjectCall ==
  /\ \E id \in IdSet(store.projects.items) :
       Suspend(Call("updateProject", id, NoId))
  /\ UNCHANGED uidCount

\* updateMaterial(m.id, {link}) for the materials of the rendered document
\* that target the project and have a link: each is a state update that
\* sets the link, which is not kept here, of a material of the latest
\* document and normalizes the document
UpdateLinks(s) == Renormalize(s, uidCount)

\* updateProject after the answer: the links of the materials are updated
\* when the rename succeeded and a material is to be updated (relink),
\* then the state update of the project
updateProjectResume ==
  /\ Live
  /\ \E c \in pending, relink \in BOOLEAN :
       /\ c.op = "updateProject"
       /\ pending' = pending \ {c}
       /\ SetStore(updateProjectUpdate(
                     IF relink THEN UpdateLinks(store) ELSE store,
                     c.id, ScalarPatch, uidCount),
                   "updateProject", c.id, NoId)
  /\ UNCHANGED uidCount /\ AsyncFrame

\* deleteProject(id), confirmed with its files: the deletion is requested
deleteProjectCall ==
  /\ \E id \in IdSet(store.projects.items) :
       Suspend(Call("deleteProject", id, NoId))
  /\ UNCHANGED uidCount

deleteProjectResume ==
  /\ Live
  /\ \E c \in pending :
       /\ c.op = "deleteProject"
       /\ pending' = pending \ {c}
       /\ SetStore(Renormalize(deleteProjectUpdate(store, c.id), uidCount),
                   "deleteProject", c.id, NoId)
  /\ UNCHANGED uidCount /\ AsyncFrame

\* updateMaterial(id, patch) of a material with a link: the move of its
\* file is requested
updateMaterialCall ==
  /\ \E id \in IdSet(store.materials.items),
        patchTarget \in IdSet(store.projects.items) \cup {Unassigned, Undefined} :
       Suspend(Call("updateMaterial", id, patchTarget))
  /\ UNCHANGED uidCount

updateMaterialResume ==
  /\ Live
  /\ \E c \in pending :
       /\ c.op = "updateMaterial"
       /\ pending' = pending \ {c}
       /\ SetStore(updateMaterialUpdate(store, c.id, c.arg),
                   "updateMaterial", c.id, c.arg)
  /\ UNCHANGED uidCount /\ AsyncFrame

\* deleteMaterial(id), confirmed with its file: the deletion is requested
deleteMaterialCall ==
  /\ \E id \in IdSet(store.materials.items) :
       Suspend(Call("deleteMaterial", id, NoId))
  /\ UNCHANGED uidCount

deleteMaterialResume ==
  /\ Live
  /\ \E c \in pending :
       /\ c.op = "deleteMaterial"
       /\ pending' = pending \ {c}
       /\ SetStore(Renormalize(deleteMaterialUpdate(store, c.id), uidCount),
                   "deleteMaterial", c.id, NoId)
  /\ UNCHANGED uidCount /\ AsyncFrame

\* ensureDecisionForProject(pid): no Decision of the rendered document is
\* for pid, so a Decision is made, uid("d"), and its state update is queued
ensureDecisionForProjectCall ==
  /\ uidCount < MaxUid
  /\ \E pid \in IdSet(store.projects.items) :
       /\ \A i \in 1..Len(store.decisions.items) :
            store.decisions.items[i].projectInternalId # pid
       /\ Suspend(Call("ensureDecisionForProject", uid("d", uidCount + 1), pid))
  /\ uidCount' = uidCount + 1

\* the queued state update of ensureDecisionForProject
ensureDecisionForProjectResume ==
  /\ Live
  /\ \E c \in pending :
       /\ c.op = "ensureDecisionForProject"
       /\ pending' = pending \ {c}
       /\ LET d == [id |-> c.id, projectInternalId |-> c.arg,
                    postResult |-> ""]
          IN  SetStore(Renormalize([store EXCEPT !.decisions.items = <<d>> \o @],
                                   uidCount),
                       "ensureDecisionForProject", d.id, c.arg)
  /\ UNCHANGED uidCount /\ AsyncFrame

\* The document in local storage when the application starts: two
\* projects, an outreach linked to the first and a material that targets it
SavedDoc ==
  [ projects  |-> Arr(<< [id |-> "pA", outreachIds |-> Arr(<<"oA">>),
                          materialTaskIds |-> Arr(<<"mA">>)],
                         [id |-> "pB", outreachIds |-> Arr(<<>>),
                          materialTaskIds |-> Arr(<<>>)] >>),
    outreach  |-> Arr(<< [id |-> "oA", projectIds |-> Arr(<<"pA">>)] >>),
    materials |-> Arr(<< [id |-> "mA", targetProject |-> "pA"] >>),
    decisions |-> Arr(<<>>),
    meta      |-> [version |-> 1, createdAt |-> 1, updatedAt |-> 1] ]

\* useState(() => loadStore()) on a local storage that holds SavedDoc
InitAsync ==
  /\ store = loadStore("json", SavedDoc, 0, 1)
  /\ prev = store /\ lastOp = NoOp
  /\ uidCount = 6 /\ clock = 1 /\ phase = "async"
  /\ persisted = saveStore(store, 6, 1) /\ pending = {}
  /\ input = EmptyDoc /\ norm = EmptyDoc /\ norm2 = EmptyDoc

NextAsync ==
  \/ addProjectCall \/ addProjectResume
  \/ updateProjectCall \/ updateProjectResume
  \/ deleteProjectCall \/ deleteProjectResume
  \/ updateMaterialCall \/ updateMaterialResume
  \/ deleteMaterialCall \/ deleteMaterialResume
  \/ ensureDecisionForProjectCall \/ ensureDecisionForProjectResume
  \/ addOutreach \/ updateOutreach \/ linkOutreachToProject \/ onUnlinkOutreach
  \/ deleteOutreach
  \/ addMaterial \/ updateDecision

SpecAsync == InitAsync /\ [][NextAsync]_vars

-----------------------------------------------------------------------------
(* SpecFn: the pure helpers clamp01_10 and csvEscape, applied to every
   argument of a bounded set. *)

\* A number is a finite one, counted in hundredths, or NaN, Infinity or
\* -Infinity.
Finite(h) == [finite |-> TRUE, h |-> h]

NonFinite == {[finite |-> FALSE, name |-> x] : x \in {"NaN", "Infinity", "-Infinity"}}

\* the finite scores tried, in hundredths: from ScoreBelow under 0 to
\* ScoreMax
ScoreBelow == 150
ScoreMax == 1250

Scores == {Finite(h) : h \in (0 - ScoreBelow)..ScoreMax} \cup NonFinite

Max(a, b) == IF a >= b THEN a ELSE b
Min(a, b) == IF a <= b THEN a ELSE b

\* mutant of clamp01_10: the digits after the first decimal are cut off
clamp01_10_Truncate(n) ==
  IF ~n.finite THEN Finite(0)
  ELSE Finite(Max(0, Min(1000, (n.h \div 10) * 10)))

\* clamp01_10(n).  With n = h/100, Math.round(n * 10) is the integer
\* nearest to h/10, a half going up: floor((h + 5) / 10); dividing by 10
\* gives tenths, 10 hundredths each.
clamp01_10(n) ==
  IF ~n.finite THEN Finite(0)
  ELSE Finite(Max(0, Min(1000, ((n.h + 5) \div 10) * 10)))

\* A string is the sequence of its characters.
Quote == "\""

Chars == {"a", ",", Quote, "\n", "\r"}

\* the length of the longest field tried
MaxLen == 4

\* Example, "Lab"
ExampleField == <<"E", ",", " ", Quote, "L", Quote>>

Fields == UNION {[1..n -> Chars] : n \in 0..MaxLen} \cup {ExampleField}

\* v.replace(/"/g, '""')
RECURSIVE DoubleQuotes(_)
DoubleQuotes(v) ==
  IF v = <<>> THEN <<>>
  ELSE (IF Head(v) = Quote THEN <<Quote, Quote>> ELSE <<Head(v)>>)
         \o DoubleQuotes(Tail(v))

\* mutant of csvEscape: the quotes inside the field are not doubled
csvEscape_NoDoubling(v) ==
  LET needs == \E i \in 1..Len(v) : v[i] \in {Quote, ",", "\n"}
  IN  IF needs THEN <<Quote>> \o v \o <<Quote>> ELSE v

csvEscape(v) ==
  LET needs == \E i \in 1..Len(v) : v[i] \in {Quote, ",", "\n"}
      vv == DoubleQuotes(v)
  IN  IF needs THEN <<Quote>> \o vv \o <<Quote>> ELSE vv

FnFrame ==
  UNCHANGED <<input, norm2, clock, store, prev, lastOp, uidCount, persisted,
              pending>>

\* onUpdate({fit: clamp01_10(v)}) and the same for risk and roi
ClampScore ==
  /\ phase = "score"
  /\ norm' = clamp01_10(input)
  /\ phase' = "clamped"
  /\ FnFrame

\* csvEscape(String(x || "")) of a cell of the exported table
EscapeField ==
  /\ phase = "field"
  /\ norm' = csvEscape(input)
  /\ phase' = "escaped"
  /\ FnFrame

InitFn ==
  /\ \/ phase = "score" /\ input \in Scores
     \/ phase = "field" /\ input \in Fields
  /\ norm = EmptyDoc /\ norm2 = EmptyDoc
  /\ clock = 1 /\ uidCount = 0
  /\ store = EmptyDoc /\ prev = EmptyDoc /\ lastOp = NoOp
  /\ persisted = EmptyDoc /\ pending = {}

NextFn == ClampScore \/ EscapeField

SpecFn == InitFn /\ [][NextFn]_vars

-----------------------------------------------------------------------------
(* SpecGateway: the handlers that call the gateway, with the answer of the
   gateway.  A project carries its name, which names its folder; a material
   carries its type and its link, the folder and the file name of the URL
   http://localhost:3001/files/<folder>/<file>.  Every handler is taken
   as one step here, from its call to its state update; the interleavings
   are those of SpecAsync.  As in Spec, one state update is observed, with
   the answer the gateway gave: lastOp is [op, id, arg, outcome, requests]. *)

\* fetch resolves with an ok status, resolves with an error status (400,
\* 404, 500), or rejects because the gateway is unreachable
GatewayOutcomes == {"ok", "error", "unreachable"}

ProjectNames == {"A", "B"}

\* the types of a material, which name its file
MaterialTypes == {"cv", "ps"}

Loc(folder, file) == [folder |-> folder, file |-> file]

\* a material without a link (link: "")
NoLink == Loc("", "")

\* store.projects.find(p => p.id === target)?.name || "General"
FolderOf(s, target) ==
  IF target = Unassigned THEN "General"
  ELSE LET i == Find(s.projects.items, target)
       IN  IF i = 0 THEN "General"
           ELSE IF s.projects.items[i].name = "" THEN "General"
           ELSE s.projects.items[i].name

\* {...m, ...patch} for the type and the link of the patch, when it has them
PatchMaterial(s, id, hasType, type, hasLink, link) ==
  [s EXCEPT !.materials.items =
     Map(@, LAMBDA m :
        IF m.id = id
          THEN [m EXCEPT !.type = IF hasType THEN type ELSE @,
                         !.link = IF hasLink THEN link ELSE @]
          ELSE m)]

\* the move-file request of updateMaterial(id, patch): whether it is made,
\* and the link of the new location
MoveRequest(s, id, patchTarget, patchType) ==
  LET current == s.materials.items[Find(s.materials.items, id)]
      oldProjectName == FolderOf(s, current.targetProject)
      newTargetId == IF patchTarget # Undefined THEN patchTarget
                     ELSE current.targetProject
      newProjectName == FolderOf(s, newTargetId)
      oldFilename == current.link.file
      newFilename == IF patchType # Undefined /\ patchType # current.type
                       THEN patchType ELSE oldFilename
  IN  [made |-> /\ current.link # NoLink
                /\ patchTarget # Undefined \/ patchType # Undefined
                /\ oldProjectName # newProjectName \/ oldFilename # newFilename,
       newLink |-> Loc(newProjectName, newFilename)]

\* mutant of updateMaterialHandler: a call whose request fails is abandoned
updateMaterialHandler_Abandon(s, id, patchTarget, patchType, outcome) ==
  LET req == MoveRequest(s, id, patchTarget, patchType)
      moved == req.made /\ outcome = "ok"
  IN  IF req.made /\ outcome # "ok" THEN s
      ELSE PatchMaterial(updateMaterialUpdate(s, id, patchTarget), id,
                         patchType # Undefined, patchType, moved, req.newLink)

\* updateMaterial(id, patch) of a material of the document: patch.link is
\* set when the move was requested and res.ok; then the state update
updateMaterialHandler(s, id, patchTarget, patchType, outcome) ==
  LET req == MoveRequest(s, id, patchTarget, patchType)
      moved == req.made /\ outcome = "ok"
  IN  PatchMaterial(updateMaterialUpdate(s, id, patchTarget), id,
                    patchType # Undefined, patchType, moved, req.newLink)

\* m.link.replace("/files/<oldName>/", "/files/<newName>/")
RenamedLink(link, oldName, newName) ==
  IF link.folder = oldName THEN [link EXCEPT !.folder = newName] ELSE link

\* materialsToUpdate.forEach(m => updateMaterial(m.id, {link: newLink}))
RECURSIVE RelinkMaterials(_, _, _, _)
RelinkMaterials(s, ms, oldName, newName) ==
  IF ms = <<>> THEN s
  ELSE RelinkMaterials(
         PatchMaterial(updateMaterialUpdate(s, Head(ms).id, Undefined),
                       Head(ms).id, FALSE, "", TRUE,
                       RenamedLink(Head(ms).link, oldName, newName)),
         Tail(ms), oldName, newName)

\* updateProject(id, {name}) of a project of the document: the rename is
\* requested when the name changes, the links of the project's materials
\* are updated unless fetch rejects, then the state update
updateProjectHandler(s, id, name, outcome) ==
  LET oldProject == s.projects.items[Find(s.projects.items, id)]
      made == name # "" /\ name # oldProject.name
      materialsToUpdate ==
        SelectSeq(s.materials.items, LAMBDA m :
          m.targetProject = id /\ m.link # NoLink)
      relinked == IF made /\ outcome # "unreachable"
                    THEN RelinkMaterials(s, materialsToUpdate,
                                         oldProject.name, name)
                    ELSE s
      renamed == [relinked EXCEPT !.projects.items =
                    Map(@, LAMBDA p : IF p.id = id
                                        THEN [p EXCEPT !.name = name] ELSE p)]
  IN  updateProjectUpdate(renamed, id, ScalarPatch, uidCount)

\* the number of requests a handler sends for one call that asks the
\* gateway: one fetch, in no loop
Requests(made) == IF made THEN 1 ELSE 0

GatewayFrame == UNCHANGED <<input, norm, norm2, clock, pending>>

\* setStore(next) in SpecGateway, and the effect that saves the document
GatewayStore(next, op, id, arg, made, outcome) ==
  /\ store' = next
  /\ persisted' = saveStore(next, uidCount, clock)
  /\ \/ UNCHANGED <<prev, lastOp, phase>>
     \/ /\ prev' = store
        /\ lastOp' = [op |-> op, id |-> id, arg |-> arg,
                      outcome |-> IF made THEN outcome ELSE "none",
                      requests |-> Requests(made)]
        /\ phase' = "observed"

\* addProject with the name the prompt returned ("" names the folder
\* Untitled)
addProjectGateway ==
  /\ phase = "gateway" /\ uidCount < MaxUid
  /\ \E name \in ProjectNames \cup {""}, outcome \in GatewayOutcomes :
       LET p == [id |-> uid("p", uidCount + 1), name |-> name,
                 outreachIds |-> Arr(<<>>), materialTaskIds |-> Arr(<<>>)]
       IN  GatewayStore(Renormalize([store EXCEPT !.projects.items = <<p>> \o @],
                                    uidCount + 1),
                        "addProject", p.id, name, TRUE, outcome)
  /\ uidCount' = uidCount + 1
  /\ GatewayFrame

updateProjectGateway ==
  /\ phase = "gateway"
  /\ \E id \in IdSet(store.projects.items), name \in ProjectNames,
        outcome \in GatewayOutcomes :
       GatewayStore(updateProjectHandler(store, id, name, outcome),
                    "updateProject", id, name,
                    name # store.projects.items[Find(store.projects.items, id)].name,
                    outcome)
  /\ UNCHANGED uidCount /\ GatewayFrame

\* deleteProject(id), confirmed, with or without its folder
deleteProjectGateway ==
  /\ phase = "gateway"
  /\ \E id \in IdSet(store.projects.items), deleteFiles \in BOOLEAN,
        outcome \in GatewayOutcomes :
       GatewayStore(Renormalize(deleteProjectUpdate(store, id), uidCount),
                    "deleteProject", id, NoId,
                    /\ store.projects.items[Find(store.projects.items, id)].name # ""
                    /\ deleteFiles,
                    outcome)
  /\ UNCHANGED uidCount /\ GatewayFrame

updateMaterialGateway ==
  /\ phase = "gateway"
  /\ \E id \in IdSet(store.materials.items),
        patchTarget \in IdSet(store.projects.items) \cup {Unassigned, Undefined},
        patchType \in MaterialTypes \cup {Undefined},
        outcome \in GatewayOutcomes :
       GatewayStore(updateMaterialHandler(store, id, patchTarget, patchType,
                                          outcome),
                    "updateMaterial", id,
                    [targetProject |-> patchTarget, type |-> patchType],
                    MoveRequest(store, id, patchTarget, patchType).made,
                    outcome)
  /\ UNCHANGED uidCount /\ GatewayFrame

\* deleteMaterial(id), confirmed, with or without its file
deleteMaterialGateway ==
  /\ phase = "gateway"
  /\ \E id \in IdSet(store.materials.items), deleteFile \in BOOLEAN,
        outcome \in GatewayOutcomes :
       GatewayStore(Renormalize(deleteMaterialUpdate(store, id), uidCount),
                    "deleteMaterial", id, NoId,
                    /\ store.materials.items[Find(store.materials.items, id)].link
                         # NoLink
                    /\ deleteFile,
                    outcome)
  /\ UNCHANGED uidCount /\ GatewayFrame

\* The document in local storage when the application starts: a project
\* with its folder, a material of it with an uploaded file and a material
\* without one
GatewayDoc ==
  [ projects  |-> Arr(<< [id |-> "pA", name |-> "A", outreachIds |-> Arr(<<>>),
                          materialTaskIds |-> Arr(<<"mA">>)] >>),
    outreach  |-> Arr(<<>>),
    materials |-> Arr(<< [id |-> "mA", targetProject |-> "pA", type |-> "cv",
                          link |-> Loc("A", "cv")],
                         [id |-> "mB", targetProject |-> Unassigned,
                          type |-> "ps", link |-> NoLink] >>),
    decisions |-> Arr(<<>>),
    meta      |-> [version |-> 1, createdAt |-> 1, updatedAt |-> 1] ]

\* useState(() => loadStore()) on a local storage that holds GatewayDoc
InitGateway ==
  /\ store = loadStore("json", GatewayDoc, 0, 1)
  /\ prev = store /\ lastOp = NoOp
  /\ uidCount = 6 /\ clock = 1 /\ phase = "gateway"
  /\ persisted = EmptyDoc /\ pending = {}
  /\ input = EmptyDoc /\ norm = EmptyDoc /\ norm2 = EmptyDoc

NextGateway ==
  \/ addProjectGateway \/ updateProjectGateway \/ deleteProjectGateway
  \/ updateMaterialGateway \/ deleteMaterialGateway

SpecGateway == InitGateway /\ [][NextGateway]_vars

-----------------------------------------------------------------------------
(* SpecPath: the file operations of the gateway (src/server/server.js).
   A value of a request (a project name, a type, a path, a folder name) is
   a string, here the sequence of its characters; a location of the file
   system is an absolute path, here the sequence of its segments.  The
   gateway keeps no state between two requests, so one request is followed
   from the listening gateway to its answer: input is the request and norm
   the locations the operation read, wrote and removed.  Whether the location an operation looks up exists is not
   known to the gateway and is drawn with the request. *)

\* a letter, the dot and the separator: enough to write "..", "../a", "/a"
PathChars == {"a", ".", "/"}

MaxPathLen == 4

\* the strings a request may carry
RequestValues == UNION {[1..k -> PathChars] : k \in 0..MaxPathLen}

\* appConfig.storageRoot, a directory two levels below the root: /s/u
StorageRoot == << <<"s">>, <<"u">> >>

\* the characters of the model that sanitize keeps: letters and "_"
SafeChars == {"a", "F", "G", "_"}

\* str.replace(/[^a-zA-Z0-9_\-\u4e00-\u9fa5\s]/g, '_')
sanitize(str) ==
  [i \in 1..Len(str) |-> IF str[i] \in SafeChars THEN str[i] ELSE "_"]
    \o <<>>

\* the segments of a string, split at the separator
RECURSIVE Split(_)
Split(str) ==
  IF Len(str) = 0 THEN << <<>> >>
  ELSE LET rest == Split(Tail(str))
       IN  IF Head(str) = "/"
             THEN << <<>> >> \o rest
             ELSE << <<Head(str)>> \o Head(rest) >> \o Tail(rest)

\* path.normalize of an absolute path: empty segments and "." are dropped,
\* ".." drops the segment before it and stays at the root of the file system
RECURSIVE Resolve(_, _)
Resolve(base, segs) ==
  IF Len(segs) = 0 THEN base
  ELSE LET seg == Head(segs)
           next == IF Len(seg) = 0 \/ seg = <<".">> THEN base
                   ELSE IF seg = <<".", ".">>
                     THEN SubSeq(base, 1, Len(base) - 1)
                   ELSE Append(base, seg)
       IN  Resolve(next, Tail(segs))

\* path.join(base, str) for an absolute base
pathJoin(base, str) == Resolve(base, Split(str))

\* path.dirname of an absolute path
Dirname(p) == SubSeq(p, 1, Len(p) - 1)

Effect(read, written, removed) ==
  [read |-> read, written |-> written, removed |-> removed]

NoEffect == Effect({}, {}, {})

\* the locations an operation touched
Touched(e) == e.read \cup e.written \cup e.removed

PathFrame ==
  UNCHANGED <<norm2, clock, store, prev, lastOp, uidCount, persisted,
              pending>>

\* POST /create-project-folder
createProjectFolder ==
  /\ phase = "listening" /\ phase' = "answered"
  /\ \E projectName \in RequestValues, exists \in BOOLEAN :
       /\ input' = [op |-> "create-project-folder", projectName |-> projectName]
       /\ norm' =
            IF Len(projectName) = 0 THEN NoEffect
            ELSE LET targetDir == pathJoin(StorageRoot, sanitize(projectName))
                 IN  Effect({targetDir},
                            IF exists THEN {} ELSE {targetDir}, {})
  /\ PathFrame

\* POST /move-file
moveFile ==
  /\ phase = "listening" /\ phase' = "answered"
  /\ \E oldPath \in RequestValues, newPath \in RequestValues,
        exists \in BOOLEAN :
       /\ input' = [op |-> "move-file", oldPath |-> oldPath,
                    newPath |-> newPath]
       /\ norm' =
            IF Len(oldPath) = 0 \/ Len(newPath) = 0 THEN NoEffect
            ELSE LET absOld == pathJoin(StorageRoot, oldPath)
                     absNew == pathJoin(StorageRoot, newPath)
                 IN  IF exists
                       THEN Effect({absOld, Dirname(absNew)}, {absNew},
                                   {absOld})
                       ELSE Effect({absOld}, {}, {})
  /\ PathFrame

\* POST /rename-folder
renameFolder ==
  /\ phase = "listening" /\ phase' = "answered"
  /\ \E oldName \in RequestValues, newName \in RequestValues,
        exists \in BOOLEAN :
       /\ input' = [op |-> "rename-folder", oldName |-> oldName,
                    newName |-> newName]
       /\ norm' =
            LET absOld == pathJoin(StorageRoot, oldName)
                absNew == pathJoin(StorageRoot, newName)
            IN  IF exists THEN Effect({absOld}, {absNew}, {absOld})
                ELSE Effect({absOld}, {}, {})
  /\ PathFrame

\* POST /delete-file
deleteFile ==
  /\ phase = "listening" /\ phase' = "answered"
  /\ \E filePath \in RequestValues, exists \in BOOLEAN :
       /\ input' = [op |-> "delete-file", filePath |-> filePath]
       /\ norm' =
            LET absPath == pathJoin(StorageRoot, filePath)
            IN  Effect({absPath}, {}, IF exists THEN {absPath} ELSE {})
  /\ PathFrame

\* POST /delete-folder: fs.rmSync(absPath, { recursive: true, force: true })
deleteFolder ==
  /\ phase = "listening" /\ phase' = "answered"
  /\ \E folderName \in RequestValues, exists \in BOOLEAN :
       /\ input' = [op |-> "delete-folder", folderName |-> folderName]
       /\ norm' =
            LET absPath == pathJoin(StorageRoot, folderName)
            IN  Effect({absPath}, {}, IF exists THEN {absPath} ELSE {})
  /\ PathFrame

\* GET /files/<filePath>
serveFile ==
  /\ phase = "listening" /\ phase' = "answered"
  /\ \E filePath \in RequestValues :
       /\ input' = [op |-> "files", filePath |-> filePath]
       /\ norm' = Effect({pathJoin(StorageRoot, filePath)}, {}, {})
  /\ PathFrame

\* POST /upload with a file: the file is stored at the storage root under a
\* temporary name, then moved to <project>/<type><ext>; ext is
\* path.extname of the name of the file.  projectId is read only when
\* projectName is empty.
upload ==
  /\ phase = "listening" /\ phase' = "answered"
  /\ \E projectName \in RequestValues, projectId \in RequestValues,
        type \in RequestValues, ext \in {<<>>, <<".", "a">>},
        exists \in BOOLEAN :
       /\ Len(projectName) # 0 => Len(projectId) = 0
       /\ input' = [op |-> "upload", projectName |-> projectName,
                    projectId |-> projectId, type |-> type, ext |-> ext]
       /\ norm' =
            LET safeProjectName ==
                  IF Len(projectName) # 0 THEN projectName
                  ELSE IF Len(projectId) # 0 THEN projectId
                  ELSE <<"G">>
                targetDir == pathJoin(StorageRoot, sanitize(safeProjectName))
                oldPath == Append(StorageRoot, <<"t">>)
                safeType == IF Len(type) # 0 THEN type ELSE <<"F">>
                newFilename == sanitize(safeType) \o ext
                newPath == pathJoin(targetDir, newFilename)
            IN  Effect({targetDir, newPath}, {oldPath, targetDir, newPath},
                       {oldPath} \cup IF exists THEN {newPath} ELSE {})
  /\ PathFrame

\* app.listen(PORT)
InitPath ==
  /\ phase = "listening"
  /\ input = [op |-> "none"] /\ norm = NoEffect
  /\ norm2 = EmptyDoc /\ clock = 0 /\ store = EmptyDoc /\ prev = EmptyDoc
  /\ lastOp = NoOp /\ uidCount = 0 /\ persisted = EmptyDoc /\ pending = {}

NextPath ==
  \/ createProjectFolder \/ moveFile \/ renameFolder \/ deleteFile
  \/ deleteFolder \/ serveFile \/ upload

SpecPath == InitPath /\ [][NextPath]_vars

-----------------------------------------------------------------------------
(* Properties of normalizeStore, checked under SpecNorm *)

Normalized == phase \in {"normalized", "renormalized"}

Projects(d) == SeqToSet(d.projects.items)

Outreaches(d) == SeqToSet(d.outreach.items)

Materials(d) == SeqToSet(d.materials.items)

Decisions(d) == SeqToSet(d.decisions.items)

IgnoreUpdatedAt(d) == [d EXCEPT !.meta.updatedAt = 0]

\* the ids of a top-level collection of a candidate: none when it is no array
CandidateIds(coll) == IF coll.isArray THEN IdSet(coll.items) ELSE {}

\* the ids of the entities of a collection that may hold null elements
EntityIdSet(items) == {e.id : e \in SeqToSet(items) \ {Null}}

\* C1: normalizeStore is idempotent: normalizing the result of a
\* normalization again, at a later time, gives a document equal to that
\* result in everything but meta.updatedAt.
C1_Idempotent ==
  phase = "renormalized" => IgnoreUpdatedAt(norm2) = IgnoreUpdatedAt(norm)

\* C1 witness: a candidate with a missing collection and a link held by the
\* outreach alone has been normalized twice, the second time later on, and
\* the first normalization changed the project.
C1_Witness ==
  /\ phase = "renormalized"
  /\ ~input.materials.isArray
  /\ norm2.meta.updatedAt > norm.meta.updatedAt
  /\ input.projects.isArray
  /\ \E i \in 1..Len(input.projects.items) :
       /\ input.projects.items[i].outreachIds.isArray
       /\ Len(norm.projects.items[i].outreachIds.items)
            > Len(input.projects.items[i].outreachIds.items)

\* C2: every id in the outreachIds of a Project of the result names an
\* Outreach of the result whose projectIds contains the Project's id.
C2_ProjectSideClosure ==
  Normalized =>
    \A P \in Projects(norm) :
      \A o \in SeqToSet(P.outreachIds.items) :
        \E O \in Outreaches(norm) :
          O.id = o /\ Contains(O.projectIds.items, P.id)

\* C3: every id in the projectIds of an Outreach of the result names a
\* Project of the result whose outreachIds contains the Outreach's id, and
\* every id in any outreachIds names an Outreach of the result.
C3_OutreachSideClosure ==
  Normalized =>
    /\ \A O \in Outreaches(norm) :
         \A p \in SeqToSet(O.projectIds.items) :
           \E P \in Projects(norm) :
             P.id = p /\ Contains(P.outreachIds.items, O.id)
    /\ \A P \in Projects(norm) :
         \A o \in SeqToSet(P.outreachIds.items) :
           \E O \in Outreaches(norm) : O.id = o

\* C3 witness: the candidate held a link on the outreach side only and a
\* projectIds entry naming no project; the result has the link on both sides.
C3_Witness ==
  /\ Normalized
  /\ input.projects.isArray /\ input.outreach.isArray
  /\ \E i \in 1..Len(input.outreach.items) :
       LET O == input.outreach.items[i]
       IN  /\ O.projectIds.isArray
           /\ \E p \in SeqToSet(O.projectIds.items) :
                p \notin IdSet(input.projects.items)
           /\ \E j \in 1..Len(input.projects.items) :
                LET P == input.projects.items[j]
                IN  /\ Contains(O.projectIds.items, P.id)
                    /\ P.outreachIds.isArray
                    /\ ~Contains(P.outreachIds.items, O.id)
                    /\ Contains(norm.projects.items[j].outreachIds.items, O.id)

\* C4: every id in the materialTaskIds of a Project of the result names a
\* MaterialTask of the result whose targetProject is that Project's id or
\* the unassigned sentinel.
C4_ProjectListsOwnMaterials ==
  Normalized =>
    \A P \in Projects(norm) :
      \A m \in SeqToSet(P.materialTaskIds.items) :
        \E M \in Materials(norm) :
          M.id = m /\ M.targetProject \in {P.id, Unassigned}

\* C5: every MaterialTask of the result is unassigned or targets a Project
\* of the result whose materialTaskIds contains the MaterialTask's id.
C5_MaterialTargetValid ==
  Normalized =>
    \A M \in Materials(norm) :
      \/ M.targetProject = Unassigned
      \/ \E P \in Projects(norm) :
           P.id = M.targetProject /\ Contains(P.materialTaskIds.items, M.id)

\* C5 witness: the candidate had a material targeting no existing project,
\* now unassigned, and a material targeting a project that did not list it,
\* now listed.
C5_Witness ==
  /\ Normalized
  /\ input.projects.isArray /\ input.materials.isArray
  /\ \E i \in 1..Len(input.materials.items) :
       /\ input.materials.items[i].targetProject
            \notin IdSet(input.projects.items) \cup {Unassigned}
       /\ norm.materials.items[i].targetProject = Unassigned
  /\ \E i \in 1..Len(input.materials.items) :
       \E j \in 1..Len(input.projects.items) :
         LET M == input.materials.items[i]
             P == input.projects.items[j]
         IN  /\ M.targetProject = P.id
             /\ P.materialTaskIds.isArray
             /\ ~Contains(P.materialTaskIds.items, M.id)
             /\ Contains(norm.projects.items[j].materialTaskIds.items, M.id)

\* what normalizeStore made of the reference list before of a candidate
\* project, valid being the ids of the entities of the document: every valid
\* id of the list is kept, in the order of its first occurrence, and no
\* other id of the list is.
PrunedExactly(before, after, valid) ==
  /\ \A x \in SeqToSet(before) : x \in valid => Contains(after, x)
  /\ \A x \in SeqToSet(after) : x \in valid
  /\ Dedup(SelectSeq(after, LAMBDA x : Contains(before, x)))
       = Dedup(SelectSeq(before, LAMBDA x : x \in valid))

\* C9: from the outreachIds and the materialTaskIds of a candidate Project,
\* normalizeStore removes the ids that name no Outreach / MaterialTask of
\* the document and no others; the ids that name one stay, in their order.
C9_DanglingPrunedExactly ==
  (Normalized /\ input.projects.isArray) =>
    \A i \in 1..Len(input.projects.items) :
      LET P == input.projects.items[i]
          Q == norm.projects.items[i]
      IN  /\ P.outreachIds.isArray =>
                PrunedExactly(P.outreachIds.items, Q.outreachIds.items,
                              CandidateIds(input.outreach))
          /\ P.materialTaskIds.isArray =>
                PrunedExactly(P.materialTaskIds.items, Q.materialTaskIds.items,
                              CandidateIds(input.materials))

\* C9 witness: a project listed a dangling outreach id before a valid one
\* (the pair ["missing", "o1"]) and a dangling material id after a valid
\* one; the result lists the valid ids alone.
C9_Witness ==
  /\ Normalized
  /\ input.projects.isArray /\ input.outreach.isArray /\ input.materials.isArray
  /\ \E i \in 1..Len(input.projects.items) :
       LET P == input.projects.items[i]
           Q == norm.projects.items[i]
       IN  /\ P.outreachIds.isArray /\ P.materialTaskIds.isArray
           /\ Len(P.outreachIds.items) = 2
           /\ P.outreachIds.items[1] \notin IdSet(input.outreach.items)
           /\ P.outreachIds.items[2] \in IdSet(input.outreach.items)
           /\ Q.outreachIds.items = <<P.outreachIds.items[2]>>
           /\ Len(P.materialTaskIds.items) = 1
           /\ P.materialTaskIds.items[1] \notin IdSet(input.materials.items)
           /\ Q.materialTaskIds.items = <<>>

AllArrays(d) ==
  d.projects.isArray /\ d.outreach.isArray /\ d.materials.isArray
    /\ d.decisions.isArray

\* C10: when the four collections of the candidate are arrays, every entity
\* of the result has the id of an entity of the same collection of the
\* candidate, and every reference of the result is the id of an entity of
\* the referenced collection of the candidate, or the unassigned sentinel.
C10_NoFabrication ==
  (Normalized /\ AllArrays(input)) =>
    /\ IdSet(norm.projects.items) \subseteq IdSet(input.projects.items)
    /\ IdSet(norm.outreach.items) \subseteq IdSet(input.outreach.items)
    /\ IdSet(norm.materials.items) \subseteq IdSet(input.materials.items)
    /\ IdSet(norm.decisions.items) \subseteq EntityIdSet(input.decisions.items)
    /\ \A P \in Projects(norm) :
         /\ SeqToSet(P.outreachIds.items) \subseteq IdSet(input.outreach.items)
         /\ SeqToSet(P.materialTaskIds.items)
              \subseteq IdSet(input.materials.items)
    /\ \A O \in Outreaches(norm) :
         SeqToSet(O.projectIds.items) \subseteq IdSet(input.projects.items)
    /\ \A M \in Materials(norm) :
         M.targetProject \in IdSet(input.projects.items) \cup {Unassigned}
    /\ \A D \in Decisions(norm) :
         D.projectInternalId \in IdSet(input.projects.items)

\* C10 witness: a candidate of four arrays, one of them empty, whose
\* normalization kept a decision and wrote an id into a project's list that
\* the project did not hold.
C10_Witness ==
  /\ Normalized /\ AllArrays(input)
  /\ input.outreach.items = <<>>
  /\ norm.decisions.items # <<>>
  /\ \E i \in 1..Len(input.projects.items) :
       /\ input.projects.items[i].materialTaskIds.isArray
       /\ \E m \in SeqToSet(norm.projects.items[i].materialTaskIds.items) :
            ~Contains(input.projects.items[i].materialTaskIds.items, m)

\* C11: normalizeStore never ends in an error, whatever the candidate.
C11_NeverRaises == phase # "raised"

\* the ids of the entities of a sequence, in order
IdsOf(items) == Map(items, LAMBDA e : e.id)

\* C18: a collection of the candidate that is not an array is the whole
\* collection of the fresh seed document in the result, and a collection
\* that is an array keeps its own entities and no others; of the decisions,
\* those whose project is in the result.
C18_WholesaleDefaulting ==
  phase = "normalized" =>
    LET base == seed(uidCount - 6, clock - 1)
        Src(c) == IF input[c].isArray THEN input[c].items ELSE base[c].items
    IN  /\ \A c \in {"projects", "outreach", "materials"} :
             IdsOf(norm[c].items) = IdsOf(Src(c))
        /\ IdsOf(norm.decisions.items)
             = IdsOf(SelectSeq(Src("decisions"), LAMBDA d :
                        d # Null /\ d.projectInternalId
                                      \in IdSet(norm.projects.items)))

\* C18 witness: the candidate had no materials array and no projects array,
\* and an outreach array with an entity: the result has the materials, the
\* projects and the decision of the seed, and the outreach of the candidate.
C18_Witness ==
  /\ phase = "normalized"
  /\ ~input.materials.isArray /\ ~input.projects.isArray
  /\ ~input.decisions.isArray
  /\ input.outreach.isArray /\ input.outreach.items # <<>>
  /\ Len(norm.materials.items) = 2 /\ Len(norm.projects.items) = 2
  /\ Len(norm.decisions.items) = 1
  /\ IdsOf(norm.outreach.items) = IdsOf(input.outreach.items)

\* the project at position i is the only one of the document with its id
UniqueProject(d, i) ==
  \A k \in 1..Len(d.projects.items) :
    d.projects.items[k].id = d.projects.items[i].id => k = i

-----------------------------------------------------------------------------
(* Properties of loadStore and handleImportFile, checked under SpecLoad *)

\* C15: loadStore returns a fresh seed document when the persisted text is
\* absent or unparsable or its value lacks one of the four collections, and
\* normalizeStore of the parsed document otherwise.
C15_LoadFallsBack ==
  phase = "loaded" =>
    IF lastOp.arg # "json" \/ LacksCollection(input)
      THEN store = seed(uidCount - 6, clock - 1)
      ELSE /\ ~normalizeStoreThrows(input, seed(uidCount - 6, clock - 1))
           /\ store = normalizeStore(input, seed(uidCount - 6, clock - 1),
                                     clock - 1)

\* C17: an imported file that does not parse or lacks one of the four
\* collections leaves the in-memory document as it was; any other file
\* makes it normalizeStore of the imported document.
C17_ImportAllOrNothing ==
  phase = "imported" =>
    IF lastOp.arg # "json" \/ LacksCollection(input)
      THEN store = prev
      ELSE /\ ~normalizeStoreThrows(input, seed(uidCount - 6, clock - 1))
           /\ store = normalizeStore(input, seed(uidCount - 6, clock - 1),
                                     clock - 1)

-----------------------------------------------------------------------------
(* Properties of the store mutations, checked under Spec *)

Observed(op) == phase = "observed" /\ lastOp.op = op

\* the entity of the collection coll with the id id
Entity(coll, id) == coll.items[Find(coll.items, id)]

\* how many times x occurs in the sequence s
Count(s, x) == Cardinality({i \in 1..Len(s) : s[i] = x})

\* the ids of the materials of d that target the project P
TargetingIds(d, P) == {M.id : M \in {X \in Materials(d) : X.targetProject = P}}

\* C6: updateMaterial(M, {targetProject: B}) on a material whose target is
\* the project A, with A # B and both in the document, gives a document in
\* which A.materialTaskIds does not contain M and B.materialTaskIds contains
\* it exactly once.
C6_ReassignmentAtomic ==
  (/\ Observed("updateMaterial")
   /\ lastOp.arg \in IdSet(prev.projects.items)
   /\ Entity(prev.materials, lastOp.id).targetProject \in IdSet(prev.projects.items)
   /\ Entity(prev.materials, lastOp.id).targetProject # lastOp.arg)
  =>
    LET M == lastOp.id
        A == Entity(prev.materials, M).targetProject
        B == lastOp.arg
    IN  /\ Entity(store.materials, M).targetProject = B
        /\ ~Contains(Entity(store.projects, A).materialTaskIds.items, M)
        /\ Count(Entity(store.projects, B).materialTaskIds.items, M) = 1

\* C6 witness: a material listed by its target A, and by no other project,
\* has been moved to the project B.
C6_Witness ==
  /\ Observed("updateMaterial")
  /\ lastOp.arg \in IdSet(prev.projects.items)
  /\ LET M == lastOp.id
         A == Entity(prev.materials, M).targetProject
         B == lastOp.arg
     IN  /\ A \in IdSet(prev.projects.items) /\ A # B
         /\ Contains(Entity(prev.projects, A).materialTaskIds.items, M)
         /\ ~Contains(Entity(prev.projects, B).materialTaskIds.items, M)
         /\ Contains(Entity(store.projects, B).materialTaskIds.items, M)

\* C7: after deleteProject(P) the document has no Project with the id P, no
\* Decision of P and no Outreach listing P, every MaterialTask that
\* targeted P is unassigned, and the ids of the materials and of the
\* outreach are those of before.
C7_DeleteProjectCascade ==
  Observed("deleteProject") =>
    LET P == lastOp.id
    IN  /\ P \notin IdSet(store.projects.items)
        /\ \A D \in Decisions(store) : D.projectInternalId # P
        /\ \A O \in Outreaches(store) : ~Contains(O.projectIds.items, P)
        /\ \A m \in TargetingIds(prev, P) :
             \A M \in Materials(store) : M.id = m => M.targetProject = Unassigned
        /\ \A M \in Materials(store) : M.targetProject # P
        /\ Map(store.materials.items, LAMBDA M : M.id)
             = Map(prev.materials.items, LAMBDA M : M.id)
        /\ Map(store.outreach.items, LAMBDA O : O.id)
             = Map(prev.outreach.items, LAMBDA O : O.id)

\* C7 witness: the deleted project had a Decision, an Outreach listing it
\* and a MaterialTask targeting it, and another project remains.
C7_Witness ==
  /\ Observed("deleteProject")
  /\ \E D \in Decisions(prev) : D.projectInternalId = lastOp.id
  /\ \E O \in Outreaches(prev) : Contains(O.projectIds.items, lastOp.id)
  /\ TargetingIds(prev, lastOp.id) # {}
  /\ Len(store.decisions.items) < Len(prev.decisions.items)
  /\ store.projects.items # <<>>

\* C8: after deleteProject(P) every MaterialTask that targeted P is
\* unassigned and its id is in the materialTaskIds of no remaining Project.
C8_NoResidualMembership ==
  Observed("deleteProject") =>
    \A m \in TargetingIds(prev, lastOp.id) :
      /\ \A M \in Materials(store) : M.id = m => M.targetProject = Unassigned
      /\ \A Q \in Projects(store) : ~Contains(Q.materialTaskIds.items, m)

InStore == phase \in {"store", "observed"}

\* the decisions of the document d whose project is P
DecisionsOf(d, P) ==
  {i \in 1..Len(d.decisions.items) : d.decisions.items[i].projectInternalId = P}

\* C13: in every document the store holds, a Project has at most one
\* Decision.
C13_DecisionUniquePerProject ==
  InStore =>
    \A P \in IdSet(store.projects.items) : Cardinality(DecisionsOf(store, P)) <= 1

\* C14: every Decision of the document the store holds is owned by a
\* Project of the document; and a Decision that a state update removes was
\* owned by the project the update deleted, unless the update replaced the
\* whole document (import, reset).
C14_DecisionOwnership ==
  /\ InStore =>
       \A D \in Decisions(store) :
         D.projectInternalId \in IdSet(store.projects.items)
  /\ (phase = "observed"
        /\ lastOp.op \notin {"handleImportFile", "resetAll"}) =>
       \A D \in Decisions(prev) :
         D.id \notin IdSet(store.decisions.items) =>
           lastOp.op = "deleteProject" /\ D.projectInternalId = lastOp.id

\* C14 witness: deleteProject removed the Decision of the deleted project
\* and left the Decision of another project in the document.
C14_Witness ==
  /\ Observed("deleteProject")
  /\ \E D \in Decisions(prev) :
       D.projectInternalId = lastOp.id /\ D.id \notin IdSet(store.decisions.items)
  /\ \E D \in Decisions(prev) :
       D.projectInternalId # lastOp.id /\ D \in Decisions(store)

\* C16: the document that saveStore writes equals the document the store
\* holds in everything but meta.updatedAt.
C16_PersistedEqualsInMemory ==
  InStore => IgnoreUpdatedAt(persisted) = IgnoreUpdatedAt(store)

\* C16 witness: a state update changed the document the store holds, which
\* is not the seed document, and the saved document equals the new one.
C16_Witness ==
  /\ Observed("updateMaterial")
  /\ store # prev
  /\ IdsOf(prev.projects.items) # IdsOf(seed(0, 1).projects.items)
  /\ IgnoreUpdatedAt(persisted) = IgnoreUpdatedAt(store)

\* C20: after deleteOutreach(O) no Project lists O, after deleteMaterial(M)
\* no Project lists M; the projects are those of before, the collection
\* deleted from holds its other entities, and the other collections are
\* unchanged.
C20_DeletePrunesWithoutCascade ==
  /\ Observed("deleteOutreach") =>
       /\ \A P \in Projects(store) : ~Contains(P.outreachIds.items, lastOp.id)
       /\ IdsOf(store.projects.items) = IdsOf(prev.projects.items)
       /\ IdsOf(store.outreach.items)
            = Without(IdsOf(prev.outreach.items), lastOp.id)
       /\ store.materials = prev.materials
       /\ store.decisions = prev.decisions
  /\ Observed("deleteMaterial") =>
       /\ \A P \in Projects(store) : ~Contains(P.materialTaskIds.items, lastOp.id)
       /\ IdsOf(store.projects.items) = IdsOf(prev.projects.items)
       /\ IdsOf(store.materials.items)
            = Without(IdsOf(prev.materials.items), lastOp.id)
       /\ store.outreach = prev.outreach
       /\ store.decisions = prev.decisions

\* C20 witness: the deleted outreach was listed by a project, which is
\* still in the document, as are a material and a decision.
C20_Witness ==
  /\ Observed("deleteOutreach")
  /\ \E P \in Projects(prev) : Contains(P.outreachIds.items, lastOp.id)
  /\ store.projects.items # <<>>
  /\ store.materials.items # <<>> /\ store.decisions.items # <<>>

-----------------------------------------------------------------------------
(* Properties of the waiting handlers, checked under SpecAsync *)

\* C12: whatever the interleaving of the waiting handlers with each other
\* and with the other handlers, in every document the store holds after a
\* state update every reference id names an entity of the document, every
\* link held by an outreach is held by the project too, and every material
\* that targets a project is listed by that project.
C12_InterleavingsKeepInvariants ==
  phase \in {"async", "observed"} =>
    LET P == store.projects.items
        O == store.outreach.items
        M == store.materials.items
        D == store.decisions.items
    IN  /\ \A i \in 1..Len(P) :
             /\ SeqToSet(P[i].outreachIds.items) \subseteq IdSet(O)
             /\ SeqToSet(P[i].materialTaskIds.items) \subseteq IdSet(M)
        /\ \A i \in 1..Len(O) :
             \A p \in SeqToSet(O[i].projectIds.items) :
               \E j \in 1..Len(P) :
                 P[j].id = p /\ Contains(P[j].outreachIds.items, O[i].id)
        /\ \A i \in 1..Len(M) :
             \/ M[i].targetProject = Unassigned
             \/ \E j \in 1..Len(P) :
                  /\ P[j].id = M[i].targetProject
                  /\ Contains(P[j].materialTaskIds.items, M[i].id)
        /\ \A i \in 1..Len(D) : D[i].projectInternalId \in IdSet(P)

\* C12 witness: updateMaterial was called to move a material to a project,
\* the project was deleted while the call waited, and the state update was
\* applied afterwards while another call was still waiting.
C12_Witness ==
  /\ phase = "observed" /\ lastOp.op = "updateMaterial"
  /\ lastOp.arg \notin {Unassigned, Undefined}
  /\ lastOp.arg \notin IdSet(prev.projects.items)
  /\ lastOp.id \in IdSet(store.materials.items)
  /\ pending # {}

-----------------------------------------------------------------------------
(* Properties of the pure helpers, checked under SpecFn *)

\* the tenths (in hundredths) nearest to h, the upper one of two equally near
RoundToOneDecimal(h) ==
  CHOOSE r \in {10 * t : t \in ((h \div 10) - 1)..((h \div 10) + 1)} :
    /\ r - 5 <= h /\ h < r + 5

\* C22: clamp01_10 of a finite score is the score rounded to one decimal and
\* then clamped to [0, 10]; 11.2 gives 10, -1 gives 0, 7.36 gives 7.4; a
\* score that is not finite gives 0; the result is always within [0, 10].
C22_ScoreClamping ==
  /\ phase = "clamped" =>
       /\ norm.finite /\ 0 <= norm.h /\ norm.h <= 1000
       /\ input.finite =>
            norm.h = Max(0, Min(1000, RoundToOneDecimal(input.h)))
       /\ ~input.finite => norm.h = 0
       /\ input = Finite(1120) => norm = Finite(1000)
       /\ input = Finite(-100) => norm = Finite(0)
       /\ input = Finite(736) => norm = Finite(740)

\* C22 witness: 7.36 has been clamped to 7.4
C22_Witness ==
  phase = "clamped" /\ input = Finite(736) /\ norm = Finite(740)

\* the field a reader of the CSV line gets back: the text between the outer
\* quotes with every pair of quotes read as one, or the text as it is
RECURSIVE CollapseQuotes(_)
CollapseQuotes(s) ==
  IF s = <<>> THEN <<>>
  ELSE IF Len(s) >= 2 /\ s[1] = Quote /\ s[2] = Quote
         THEN <<Quote>> \o CollapseQuotes(SubSeq(s, 3, Len(s)))
         ELSE <<Head(s)>> \o CollapseQuotes(Tail(s))

csvUnescape(e) ==
  IF Len(e) >= 2 /\ e[1] = Quote /\ e[Len(e)] = Quote
    THEN CollapseQuotes(SubSeq(e, 2, Len(e) - 1))
    ELSE e

\* C23: csvEscape returns a field without comma, quote and newline as it
\* is; any other field comes back between quotes with every quote inside
\* doubled; un-escaping the result gives the field back.
C23_CsvEscaping ==
  phase = "escaped" =>
    LET special == \E i \in 1..Len(input) : input[i] \in {",", Quote, "\n"}
    IN  /\ ~special => norm = input
        /\ special =>
             /\ Len(norm) >= 2 /\ norm[1] = Quote /\ norm[Len(norm)] = Quote
             /\ SubSeq(norm, 2, Len(norm) - 1) = DoubleQuotes(input)
        /\ csvUnescape(norm) = input
        /\ input = ExampleField =>
             norm = <<Quote, "E", ",", " ", Quote, Quote, "L", Quote, Quote,
                      Quote>>

\* C23 witness: the field Example, "Lab" has been escaped
C23_Witness ==
  /\ phase = "escaped" /\ input = ExampleField
  /\ Len(norm) = 10

-----------------------------------------------------------------------------
(* Properties of seed(), checked under Spec *)

\* one Project, one Outreach, two MaterialTasks and one Decision, linked to
\* each other
SeedShape(d) ==
  /\ Len(d.projects.items) = 1 /\ Len(d.outreach.items) = 1
  /\ Len(d.materials.items) = 2 /\ Len(d.decisions.items) = 1
  /\ LET P == d.projects.items[1]
         O == d.outreach.items[1]
     IN  /\ Contains(P.outreachIds.items, O.id)
         /\ Contains(O.projectIds.items, P.id)
         /\ \A i \in 1..Len(d.materials.items) :
              Contains(P.materialTaskIds.items, d.materials.items[i].id) =>
                d.materials.items[i].targetProject \in {P.id, Unassigned}
         /\ d.decisions.items[1].projectInternalId = P.id

\* C24: the document seed() returns, which resetAll stores, has exactly one
\* Project, one Outreach, two MaterialTasks and one Decision, and they are
\* fully cross-linked.
C24_SeedShape ==
  (phase = "observed" /\ lastOp.op = "resetAll") => SeedShape(store)

-----------------------------------------------------------------------------
(* Scalar pass-through of normalizeStore, checked under SpecNorm *)

\* the fields of an entity that normalizeStore may rewrite
ReferenceFields ==
  {"outreachIds", "materialTaskIds", "projectIds", "targetProject",
   "postResult"}

\* e and f are one entity up to its reference fields
SameScalars(e, f) ==
  /\ DOMAIN e = DOMAIN f
  /\ \A x \in DOMAIN e \ ReferenceFields : e[x] = f[x]

\* C25: every entity of the result is the entity of the input at the same
\* place (for decisions, of the decisions of existing projects in their
\* order) in every field but the reference fields: scalars pass through and
\* the order of each collection is kept.
C25_ScalarPassThrough ==
  phase = "normalized" =>
    LET base == seed(uidCount - 6, clock - 1)
        Src(c) == IF input[c].isArray THEN input[c].items ELSE base[c].items
        keptDecisions ==
          SelectSeq(Src("decisions"), LAMBDA d :
            d # Null /\ d.projectInternalId \in EntityIdSet(Src("projects")))
    IN  /\ \A c \in {"projects", "outreach", "materials"} :
             /\ Len(norm[c].items) = Len(Src(c))
             /\ \A i \in 1..Len(Src(c)) : SameScalars(norm[c].items[i], Src(c)[i])
        /\ Len(norm.decisions.items) = Len(keptDecisions)
        /\ \A i \in 1..Len(keptDecisions) :
             SameScalars(norm.decisions.items[i], keptDecisions[i])

\* C25 witness: a material that carries a scalar value had its dangling
\* target reset, and two entities of one collection carry different values
C25_Witness ==
  /\ phase = "normalized" /\ input.materials.isArray
  /\ \E i \in 1..Len(input.materials.items) :
       /\ HasScalar(input.materials.items[i])
       /\ norm.materials.items[i].targetProject
            # input.materials.items[i].targetProject
       /\ norm.materials.items[i][ScalarField]
            = input.materials.items[i][ScalarField]
  /\ \E c \in {"projects", "outreach", "materials", "decisions"} :
       \E i, j \in 1..Len(norm[c].items) :
         /\ HasScalar(norm[c].items[i]) /\ HasScalar(norm[c].items[j])
         /\ norm[c].items[i][ScalarField] # norm[c].items[j][ScalarField]

-----------------------------------------------------------------------------
(* The final prune pass of normalizeStore, checked under SpecNorm *)

\* the final prune pass removes an id from a project of the defaulted
\* document s that the repair of the outreach-held links added to it
PruneRemovesAdded(s) ==
  LET before   == NextProjects(s)
      repaired == RepairedProjects(s)
      pruned   == FinalPrune(repaired, NextOutreach(s))
  IN  \E i \in 1..Len(repaired) :
        \E oid \in SeqToSet(repaired[i].outreachIds.items) :
          /\ ~Contains(before[i].outreachIds.items, oid)
          /\ ~Contains(pruned[i].outreachIds.items, oid)

\* the longest list and the longest collection of the documents below
MaxPruneLen == 2

UpTo(S, n) == UNION {[1..k -> S] : k \in 0..n}

RefLists(pool) == {Arr(l) : l \in UpTo(pool, MaxPruneLen)} \cup {NotArray}

\* the documents of up to MaxPruneLen projects and as many outreach, with
\* ids of the pools and every list of references over the pools
PruneCandidates(pids, oids) ==
  LET Ps == {[id |-> i, outreachIds |-> l, materialTaskIds |-> Arr(<<>>)] :
               i \in pids, l \in RefLists(oids)}
      Os == {[id |-> i, projectIds |-> l] : i \in oids, l \in RefLists(pids)}
  IN  {[EmptyDoc EXCEPT !.projects = Arr(ps), !.outreach = Arr(os)] :
         ps \in UpTo(Ps, MaxPruneLen), os \in UpTo(Os, MaxPruneLen)}

\* C26 as stated: there is a candidate document for which the final prune
\* pass removes an id that the forward repair added, so that normalizeStore
\* with and without the pass differ.  Evaluated once, before a candidate is
\* built, over the documents of PruneCandidates.
C26_FinalPruneRequired ==
  (phase = "build" /\ input = EmptyDoc) =>
    \E d \in PruneCandidates(ProjectIdPool, OutreachIdPool) :
      LET s == Defaulted(d, seed(0, 1))
      IN  /\ PruneRemovesAdded(s)
          /\ FinalPrune(RepairedProjects(s), NextOutreach(s))
               # RepairedProjects(s)

\* C26 amended: for every candidate document the final prune pass removes
\* no id that the forward repair added, and removes nothing at all:
\* normalizeStore yields the same projects with and without it.
C26_FinalPruneChangesNothing ==
  phase = "normalized" =>
    LET s == Defaulted(input, seed(uidCount - 6, clock - 1))
    IN  /\ ~PruneRemovesAdded(s)
        /\ FinalPrune(RepairedProjects(s), NextOutreach(s)) = RepairedProjects(s)
        /\ norm.projects.items = RepairedProjects(s)

\* C26 witness: the forward repair added an outreach id to a project, and
\* the project of the result lists it
C26_Witness ==
  /\ phase = "normalized"
  /\ LET s == Defaulted(input, seed(uidCount - 6, clock - 1))
     IN  \E i \in 1..Len(RepairedProjects(s)) :
           \E oid \in SeqToSet(RepairedProjects(s)[i].outreachIds.items) :
             /\ ~Contains(NextProjects(s)[i].outreachIds.items, oid)
             /\ Contains(norm.projects.items[i].outreachIds.items, oid)

-----------------------------------------------------------------------------
(* Membership and links in the store, checked under Spec *)

\* the places of the projects of the document d that list the material M
ListingProjects(d, M) ==
  {i \in 1..Len(d.projects.items) :
     Contains(d.projects.items[i].materialTaskIds.items, M)}

\* C27: in every document the store holds, a MaterialTask id is in the
\* materialTaskIds of at most one Project, and when the material targets a
\* project, the Project that lists it is the target.
C27_SingleMembership ==
  InStore =>
    \A i \in 1..Len(store.materials.items) :
      LET M == store.materials.items[i]
      IN  /\ Cardinality(ListingProjects(store, M.id)) <= 1
          /\ M.targetProject # Unassigned =>
               \A j \in ListingProjects(store, M.id) :
                 store.projects.items[j].id = M.targetProject

\* the number of places of the list l that hold x
Occurrences(l, x) == Cardinality({k \in 1..Len(l) : l[k] = x})

\* the links the projects of the document d hold, <<project, outreach>>
ProjectLinks(d) ==
  UNION {{<<P.id, o>> : o \in SeqToSet(P.outreachIds.items)} :
           P \in SeqToSet(d.projects.items)}

\* the links the outreach of the document d hold, <<project, outreach>>
OutreachLinks(d) ==
  UNION {{<<p, O.id>> : p \in SeqToSet(O.projectIds.items)} :
           O \in SeqToSet(d.outreach.items)}

\* the document d but for the two reference lists of outreach links
WithoutOutreachLinks(d) ==
  [d EXCEPT
     !.projects.items = Map(@, LAMBDA P : [P EXCEPT !.outreachIds = Arr(<<>>)]),
     !.outreach.items = Map(@, LAMBDA O : [O EXCEPT !.projectIds = Arr(<<>>)])]

\* C28: linkOutreachToProject(O, P) leaves the document as it is when O or
\* P does not exist; otherwise P lists O once and O lists P once, no other
\* link and nothing else in the document changes, and the same link applied
\* again changes nothing.  The unlink action on (O, P) removes the link from
\* both sides and changes no other link.
C28_LinkAndUnlink ==
  /\ (phase = "observed" /\ lastOp.op = "linkOutreachToProject") =>
       LET O == lastOp.id
           P == lastOp.arg
       IN  IF O \notin IdSet(prev.outreach.items)
                \/ P \notin IdSet(prev.projects.items)
             THEN store = prev
             ELSE /\ \A i \in 1..Len(store.projects.items) :
                       store.projects.items[i].id = P =>
                         Occurrences(store.projects.items[i].outreachIds.items, O) = 1
                  /\ \A i \in 1..Len(store.outreach.items) :
                       store.outreach.items[i].id = O =>
                         Occurrences(store.outreach.items[i].projectIds.items, P) = 1
                  /\ ProjectLinks(store) \ {<<P, O>>}
                       = ProjectLinks(prev) \ {<<P, O>>}
                  /\ OutreachLinks(store) \ {<<P, O>>}
                       = OutreachLinks(prev) \ {<<P, O>>}
                  /\ IgnoreUpdatedAt(WithoutOutreachLinks(store))
                       = IgnoreUpdatedAt(WithoutOutreachLinks(prev))
                  /\ IgnoreUpdatedAt(linkOutreachUpdate(store, O, P))
                       = IgnoreUpdatedAt(store)
  /\ (phase = "observed" /\ lastOp.op = "onUnlinkOutreach") =>
       LET O == lastOp.id
           P == lastOp.arg
       IN  /\ <<P, O>> \notin ProjectLinks(store)
           /\ <<P, O>> \notin OutreachLinks(store)
           /\ ProjectLinks(store) = ProjectLinks(prev) \ {<<P, O>>}
           /\ OutreachLinks(store) = OutreachLinks(prev) \ {<<P, O>>}
           /\ IgnoreUpdatedAt(WithoutOutreachLinks(store))
                = IgnoreUpdatedAt(WithoutOutreachLinks(prev))

\* C28 witness: an outreach and a project that held no link to each other
\* were linked, in a document that holds another link
C28_Witness ==
  /\ phase = "observed" /\ lastOp.op = "linkOutreachToProject"
  /\ <<lastOp.arg, lastOp.id>> \notin ProjectLinks(prev) \cup OutreachLinks(prev)
  /\ <<lastOp.arg, lastOp.id>> \in ProjectLinks(store) \cap OutreachLinks(store)
  /\ ProjectLinks(prev) # {}

-----------------------------------------------------------------------------
(* Properties of the gateway handlers, checked under SpecGateway *)

\* the observed call asked the gateway and the request failed
FailedCall ==
  phase = "observed" /\ lastOp.outcome \in {"error", "unreachable"}

ProjectOf(s, id) == s.projects.items[Find(s.projects.items, id)]

MaterialOf(s, id) == s.materials.items[Find(s.materials.items, id)]

\* C21: when the gateway request of addProject, updateProject,
\* deleteProject, updateMaterial or deleteMaterial fails (error answer or
\* gateway unreachable), the failure is caught and the request was sent
\* once: the handler goes on to its state update, so the document is the
\* one the call was applied to with the local change made, never an earlier
\* one.
C21_GatewayFailuresContained ==
  FailedCall =>
    /\ lastOp.requests = 1
    /\ lastOp.op = "addProject" =>
         /\ lastOp.id \notin IdSet(prev.projects.items)
         /\ Find(store.projects.items, lastOp.id) = 1
         /\ ProjectOf(store, lastOp.id).name = lastOp.arg
         /\ IdSet(prev.projects.items) \subseteq IdSet(store.projects.items)
    /\ lastOp.op = "updateProject" =>
         /\ ProjectOf(prev, lastOp.id).name # lastOp.arg
         /\ ProjectOf(store, lastOp.id).name = lastOp.arg
    /\ lastOp.op = "deleteProject" =>
         /\ lastOp.id \in IdSet(prev.projects.items)
         /\ lastOp.id \notin IdSet(store.projects.items)
    /\ lastOp.op = "updateMaterial" =>
         /\ lastOp.arg.targetProject # Undefined =>
              MaterialOf(store, lastOp.id).targetProject
                = lastOp.arg.targetProject
         /\ lastOp.arg.type # Undefined =>
              MaterialOf(store, lastOp.id).type = lastOp.arg.type
         /\ store # prev
    /\ lastOp.op = "deleteMaterial" =>
         /\ lastOp.id \in IdSet(prev.materials.items)
         /\ lastOp.id \notin IdSet(store.materials.items)

\* a move-file request of updateMaterial failed because the gateway was
\* unreachable, and the material was retargeted all the same
C21_Witness ==
  /\ FailedCall
  /\ lastOp.op = "updateMaterial"
  /\ lastOp.outcome = "unreachable"
  /\ lastOp.arg.targetProject # Undefined
  /\ MaterialOf(store, lastOp.id).targetProject
       # MaterialOf(prev, lastOp.id).targetProject

\* C29: the link of a material is rewritten to a new location only when the
\* gateway reported the move-file or rename-folder request as successful;
\* after an error answer or with the gateway unreachable the link is the
\* one it was.
C29_LinksFollowGateway ==
  phase = "observed" =>
    \A id \in IdSet(prev.materials.items) \cap IdSet(store.materials.items) :
      MaterialOf(store, id).link # MaterialOf(prev, id).link
        => lastOp.outcome = "ok"

-----------------------------------------------------------------------------
(* Properties of the gateway's file operations, checked under SpecPath *)

\* the location is the storage root or lies below it
UnderStorageRoot(p) ==
  /\ Len(p) >= Len(StorageRoot)
  /\ SubSeq(p, 1, Len(StorageRoot)) = StorageRoot

\* C30: whatever project name, type, path or folder name a request carries
\* (".." segments and absolute paths included), every file operation of the
\* gateway reads, writes, moves and deletes only locations under the
\* storage root.
C30_StorageRootConfinement ==
  phase = "answered" => \A p \in Touched(norm) : UnderStorageRoot(p)

\* the two operations that sanitize the names they are given
SanitizedOps == {"upload", "create-project-folder"}

\* upload and create-project-folder stay under the storage root
SanitizedOpsConfined ==
  (phase = "answered" /\ input.op \in SanitizedOps)
    => \A p \in Touched(norm) : UnderStorageRoot(p)

====
